---- MODULE Spec2Model ----
(***************************************************************************)
(* Verification model of the zip-to-video-studio scene pipeline:           *)
(*   - matchFilesToScenes  (src/src/utils/configParser.ts): duration       *)
(*     probing and distribution of a shared subtitle track;                *)
(*   - processScenes / getFFmpeg (videoProcessor, src/unnamed/part_000);   *)
(*   - processScenesWithCanvas / renderSceneToCanvas                       *)
(*     (src/src/utils/canvasProcessor.ts).                                 *)
(* Times are whole numbers of a fixed time unit.  An optional value        *)
(* (a TypeScript `x?: T`) is a set with at most one element.               *)
(***************************************************************************)
EXTENDS Integers, Sequences, FiniteSets, TLC

\* ---------------------------------------------------------------- bounds
MaxScenes == 2
MaxDur == 2
MaxCues == 2
MaxStart == 4
MaxCallers == 2
MaxCalls == 2
MaxFiles == 2

\* ------------------------------------------------------- optional values
Undefined == {}

Some(x) == {x}

Val(o) == CHOOSE x \in o : TRUE

\* a ?? b
Coalesce(a, b) == IF a = Undefined THEN b ELSE a

VARIABLES
  \* handleFileSelect: the configuration document, parseProjectConfig's
  \* position and result, and the extracted files
  jsonFile, parsePc, config, extractedFiles

loadVars == <<jsonFile, parsePc, config, extractedFiles>>

VARIABLES
  \* matchFilesToScenes
  processedScenes, allCues, matchPc, sceneIndex, audioTimelineCursor, probeFailed

matchVars ==
  <<processedScenes, allCues, matchPc, sceneIndex, audioTimelineCursor, probeFailed, loadVars>>

VARIABLES
  \* getFFmpeg: the module state and, per caller, the position in the function
  ffmpegInstance, ffmpegLoaded, ffmpegLoading, getPc, loadTarget, returned, calls,
  created, loadedHandles

engineVars ==
  <<ffmpegInstance, ffmpegLoaded, ffmpegLoading, getPc, loadTarget, returned, calls,
    created, loadedHandles>>

VARIABLES
  \* one call of processScenes(scenes, settings, onProgress)
  scenes, engine, syncMode, timingOffset, runPc, settled, progressLog, rendered,
  \* processScenesWithCanvas / renderSceneToCanvas
  currentSceneIndex, scenePhase, audioDuration, videoDuration, playbackRate,
  effectiveDuration, audioSource, elapsed, endedQueued, recorder, stopQueued, blobs,
  \* the scenes whose audio failed to load, the started audio sources, the
  \* requested animation frames and the frame drawn last
  audioFailed, audioPlaying, frameLoops, lastFrame,
  \* the FFmpeg path of processScenes
  loopI, outputFiles, fs, passData, cleanupK, blobContent

VARIABLES
  \* VideoAssembler: settings.engine, outputBlob, showFinalPreview and the
  \* extension of the file name handleDownload passed to downloadBlob
  settingsEngine, outputBlob, showFinalPreview, downloadExt

runVars == <<scenes, engine, syncMode, timingOffset, runPc, settled, progressLog, rendered>>

canvasVars ==
  <<currentSceneIndex, scenePhase, audioDuration, videoDuration, playbackRate,
    effectiveDuration, audioSource, elapsed, endedQueued, recorder, stopQueued, blobs,
    audioFailed, audioPlaying, frameLoops, lastFrame>>

assemblerVars == <<settingsEngine, outputBlob, showFinalPreview, downloadExt>>

ffVars == <<loopI, outputFiles, fs, passData, cleanupK, blobContent>>

renderVars == <<runVars, canvasVars, ffVars, assemblerVars>>

vars == <<matchVars, engineVars, renderVars>>

\* =====================================================================
\* Strings: a string is the sequence of its characters
\* =====================================================================

\* String.prototype.toLowerCase, on the letters that occur in the model
ToLowerChar(c) ==
  CASE c = "I" -> "i"
    [] c = "S" -> "s"
    [] c = "C" -> "c"
    [] OTHER -> c

ToLowerCase(str) == [i \in DOMAIN str |-> ToLowerChar(str[i])]

\* str.lastIndexOf(ch) + 1: the last position of ch in str, 0 when absent
LastIndexOf(str, ch) ==
  LET at == {i \in DOMAIN str : str[i] = ch}
  IN IF at = {} THEN 0 ELSE CHOOSE i \in at : \A j \in at : j <= i

\* str.slice(from - 1), from a position
SliceFrom(str, from) == SubSeq(str, from, Len(str))

\* str.includes(part)
Includes(str, part) ==
  \E i \in 0..(Len(str) - Len(part)) : SubSeq(str, i + 1, i + Len(part)) = part

Max(a, b) == IF a >= b THEN a ELSE b

\* getFileName(filepath)
GetFileName(filepath) ==
  LET lastSlash == Max(LastIndexOf(filepath, "/"), LastIndexOf(filepath, "\\"))
  IN IF lastSlash # 0 THEN SliceFrom(filepath, lastSlash + 1) ELSE filepath

\* getBaseName(filename)
GetBaseName(filename) ==
  LET name == GetFileName(filename)
      lastDot == LastIndexOf(name, ".")
  IN IF lastDot # 0 THEN SubSeq(name, 1, lastDot - 1) ELSE name

\* getExtension(filename)
GetExtension(filename) ==
  LET lastDot == LastIndexOf(filename, ".")
  IN IF lastDot # 0 THEN SliceFrom(filename, lastDot) ELSE <<>>

DigitChars == <<"0", "1", "2", "3", "4", "5", "6", "7", "8", "9">>

RECURSIVE NumberToString(_)
\* `${sceneNumber}` for a non-negative integer
NumberToString(n) ==
  IF n < 10 THEN <<DigitChars[n + 1]>>
  ELSE NumberToString(n \div 10) \o <<DigitChars[(n % 10) + 1]>>

\* [0-9]
IsDigit(c) == \E d \in DOMAIN DigitChars : DigitChars[d] = c

\* [_\-\s]
IsSeparator(c) == c \in {"_", "-", " "}

\* str has part at position p
HasAt(str, p, part) ==
  p >= 1 /\ p + Len(part) - 1 <= Len(str) /\ SubSeq(str, p, p + Len(part) - 1) = part

ScenePrefixIgnoresNextDigit(str, num) ==
  \E p \in DOMAIN str :
    /\ HasAt(str, p, <<"s", "c", "e", "n", "e">>)
    /\ \E q \in {p + 5, p + 6} :
         /\ q = p + 6 => (p + 5 <= Len(str) /\ IsSeparator(str[p + 5]))
         /\ HasAt(str, q, num)

\* /scene[_\-\s]?N(?![0-9])/i.test(str), str in lower case
MatchesScenePrefix(str, num) ==
  \E p \in DOMAIN str :
    /\ HasAt(str, p, <<"s", "c", "e", "n", "e">>)
    /\ \E q \in {p + 5, p + 6} :
         /\ q = p + 6 => (p + 5 <= Len(str) /\ IsSeparator(str[p + 5]))
         /\ HasAt(str, q, num)
         /\ (q + Len(num) <= Len(str) => ~IsDigit(str[q + Len(num)]))

\* /^N[_\-\s]/i.test(str)
MatchesLeadingNumber(str, num) ==
  /\ HasAt(str, 1, num)
  /\ Len(num) + 1 <= Len(str)
  /\ IsSeparator(str[Len(num) + 1])

\* /[_\-\s]N[_\-\s]/i.test(str)
MatchesEnclosedNumber(str, num) ==
  \E p \in DOMAIN str :
    /\ IsSeparator(str[p])
    /\ HasAt(str, p + 1, num)
    /\ p + Len(num) + 1 <= Len(str)
    /\ IsSeparator(str[p + Len(num) + 1])

\* =====================================================================
\* fileDetection (src/unnamed/part_001) and the resolver of configParser.ts
\* =====================================================================

\* VIDEO_EXTENSIONS, AUDIO_EXTENSIONS, SUBTITLE_EXTENSIONS, JSON_EXTENSION
VIDEO_EXTENSIONS == {<<".", "m", "p", "4">>, <<".", "m", "o", "v">>, <<".", "a", "v", "i">>, <<".", "w", "e", "b", "m">>}

AUDIO_EXTENSIONS == {<<".", "m", "p", "3">>, <<".", "w", "a", "v">>, <<".", "a", "a", "c">>, <<".", "o", "g", "g">>, <<".", "m", "4", "a">>}

SUBTITLE_EXTENSIONS == {<<".", "s", "r", "t">>, <<".", "v", "t", "t">>}

JSON_EXTENSION == <<".", "j", "s", "o", "n">>

\* getFileType(filename)
GetFileType(filename) ==
  LET ext == ToLowerCase(GetExtension(filename))
  IN IF ext \in VIDEO_EXTENSIONS THEN "video"
     ELSE IF ext \in AUDIO_EXTENSIONS THEN "audio"
     ELSE IF ext \in SUBTITLE_EXTENSIONS THEN "subtitle"
     ELSE IF ext = JSON_EXTENSION THEN "json"
     ELSE "unknown"

\* The content of the archive entry at a path (the `data` of the file pushed).
\* Only what a media element reports as the duration of the content is kept;
\* the entries of the model differ in it with the length of their path.
FileData(path) == (Len(path) % MaxDur) + 1

\* The ExtractedFile that extractZipFile pushes for an archive path
ExtractedFile(path) ==
  [name |-> GetFileName(path), path |-> path, type |-> GetFileType(GetFileName(path)),
   data |-> FileData(path)]

\* files.find(test): the first file of the list that passes, or undefined
Find(list, Test(_)) ==
  LET hits == SelectSeq(list, Test) IN IF Len(hits) = 0 THEN Undefined ELSE Some(hits[1])

\* The files of a list that no scene pushed so far is bound to
Unclaimed(list) ==
  LET Free(f) == \A k \in DOMAIN processedScenes :
                   Some(f) \notin {processedScenes[k].videoFile, processedScenes[k].audioFile}
  IN SelectSeq(list, Free)

CategorizedVideosUnclaimed(list) ==
  LET IsVideo(f) == f.type = "video" IN Unclaimed(SelectSeq(list, IsVideo))

\* categorizeFiles(files): the lists the resolver reads
CategorizedVideos(list) ==
  LET IsVideo(f) == f.type = "video" IN SelectSeq(list, IsVideo)

CategorizedAudios(list) ==
  LET IsPlainAudio(f) ==
        /\ f.type = "audio"
        /\ ~(Includes(ToLowerCase(f.path), <<"s", "f", "x">>) \/ Includes(ToLowerCase(f.path), <<"e", "f", "f", "e", "c", "t">>))
  IN SelectSeq(list, IsPlainAudio)

CategorizedSubtitles(list) ==
  LET IsSubtitle(f) == f.type = "subtitle" IN SelectSeq(list, IsSubtitle)

\* f => getFileName(f.path).toLowerCase() === targetFull
ExactMatch(f, targetName) ==
  ToLowerCase(GetFileName(f.path)) = ToLowerCase(GetFileName(targetName))

\* f => getBaseName(f.path).toLowerCase() === targetBase
BaseMatch(f, targetName) ==
  ToLowerCase(GetBaseName(f.path)) = ToLowerCase(GetBaseName(targetName))

\* f => fileName.includes(targetBase) || targetBase.includes(baseName)
PartialMatch(f, targetName) ==
  LET targetBase == ToLowerCase(GetBaseName(targetName))
  IN \/ Includes(ToLowerCase(GetFileName(f.path)), targetBase)
     \/ Includes(targetBase, ToLowerCase(GetBaseName(f.path)))

\* One of the three patterns of findFileBySceneNumber matches file.name
PositionalMatch(f, sceneNumber) ==
  LET num == NumberToString(sceneNumber)
      fileName == ToLowerCase(f.name)
  IN \/ MatchesScenePrefix(fileName, num)
     \/ MatchesLeadingNumber(fileName, num)
     \/ MatchesEnclosedNumber(fileName, num)

FindFileByNameAnyStep(list, targetName) ==
  LET AnyStep(f) == \/ ExactMatch(f, targetName)
                    \/ BaseMatch(f, targetName)
                    \/ PartialMatch(f, targetName)
  IN IF Len(targetName) = 0 THEN Undefined ELSE Find(list, AnyStep)

\* findFileByName(files, targetName)
FindFileByName(list, targetName) ==
  LET Exact(f) == ExactMatch(f, targetName)
      Base(f) == BaseMatch(f, targetName)
      Partial(f) == PartialMatch(f, targetName)
  IN IF Len(targetName) = 0 THEN Undefined
     ELSE IF Find(list, Exact) # Undefined THEN Find(list, Exact)
     ELSE IF Find(list, Base) # Undefined THEN Find(list, Base)
     ELSE Find(list, Partial)

\* findFileBySceneNumber(files, sceneNumber): the first file for which one
\* of the patterns matches
FindFileBySceneNumber(list, sceneNumber) ==
  LET Positional(f) == PositionalMatch(f, sceneNumber)
  IN Find(list, Positional)

ResolveChannelOrFirst(list, ref, sceneId) ==
  LET byName == IF ref # Undefined /\ Len(Val(ref)) > 0
                THEN FindFileByName(list, Val(ref)) ELSE Undefined
  IN IF byName # Undefined THEN byName
     ELSE IF FindFileBySceneNumber(list, sceneId) # Undefined
          THEN FindFileBySceneNumber(list, sceneId)
          ELSE IF Len(list) > 0 THEN Some(list[1]) ELSE Undefined

\* `if (ref) file = findFileByName(list, ref); if (!file) file =
\* findFileBySceneNumber(list, sceneId)` (an empty reference is falsy)
ResolveChannel(list, ref, sceneId) ==
  LET byName == IF ref # Undefined /\ Len(Val(ref)) > 0
                THEN FindFileByName(list, Val(ref)) ELSE Undefined
  IN IF byName # Undefined THEN byName ELSE FindFileBySceneNumber(list, sceneId)

\* ------------------------------------------------ the inputs of a load

\* The entries of the archive: clip_scene_2.mp4, scene20.mp4,
\* intro_scene-12.mp4, v/Intro.mp4, intro.mov, scene_2.mp3, scene_2.srt
ArchivePaths ==
  {<<"c", "l", "i", "p", "_", "s", "c", "e", "n", "e", "_", "2", ".", "m", "p", "4">>,
   <<"s", "c", "e", "n", "e", "2", "0", ".", "m", "p", "4">>,
   <<"i", "n", "t", "r", "o", "_", "s", "c", "e", "n", "e", "-", "1", "2", ".", "m", "p", "4">>,
   <<"v", "/", "I", "n", "t", "r", "o", ".", "m", "p", "4">>,
   <<"i", "n", "t", "r", "o", ".", "m", "o", "v">>,
   <<"s", "c", "e", "n", "e", "_", "2", ".", "m", "p", "3">>,
   <<"s", "c", "e", "n", "e", "_", "2", ".", "s", "r", "t">>}

KindRank(type) == CASE type = "video" -> 1 [] type = "audio" -> 2 [] OTHER -> 3

\* extractZipFile(file): the recognised entries, in archive order.  The
\* resolver reads the list of each kind separately, so only the order within
\* a kind reaches it: the lists of the model have the kinds in one order.
ExtractedFileLists ==
  UNION {{list \in [1..n -> {ExtractedFile(path) : path \in ArchivePaths}] :
            \A j, k \in 1..n :
              j < k => /\ list[j] # list[k]
                       /\ KindRank(list[j].type) <= KindRank(list[k].type)} :
         n \in 0..MaxFiles}

\* zz.mp4: a name no entry of the archive matches
NoSuchVideo == <<"z", "z", ".", "m", "p", "4">>

\* A scene of the document names no file, names the files intro.mp4,
\* scene_2.mp3 and scene_2.srt, or names zz.mp4, zz.mp3 and zz.srt.
SceneReferences ==
  {[video |-> Undefined, audio |-> Undefined, subtitle |-> Undefined],
   [video |-> Some(<<"i", "n", "t", "r", "o", ".", "m", "p", "4">>),
    audio |-> Some(<<"s", "c", "e", "n", "e", "_", "2", ".", "m", "p", "3">>),
    subtitle |-> Some(<<"s", "c", "e", "n", "e", "_", "2", ".", "s", "r", "t">>)],
   [video |-> Some(NoSuchVideo),
    audio |-> Some(<<"z", "z", ".", "m", "p", "3">>),
    subtitle |-> Some(<<"z", "z", ".", "s", "r", "t">>)]}

SceneIds == {2, 12, 20}

\* The elements of a "scenes" array: objects with or without an id
SceneObjects ==
  {[id |-> id, video |-> r.video, audio |-> r.audio, subtitle |-> r.subtitle] :
     id \in {Undefined} \cup {Some(n) : n \in SceneIds}, r \in SceneReferences}

\* What parsed.scenes can be besides absent: a falsy value (null, 0, ""), a
\* truthy value that is no array, or an array of scene objects.
ScenesValues ==
  {[truthy |-> FALSE, isArray |-> FALSE, items |-> <<>>],
   [truthy |-> TRUE, isArray |-> FALSE, items |-> <<>>]}
  \cup {[truthy |-> TRUE, isArray |-> TRUE, items |-> items] :
          items \in UNION {[1..n -> SceneObjects] : n \in 0..MaxScenes}}

\* The configuration file: text that is no JSON, the JSON value null, or a
\* JSON object with or without a "scenes" member.
Documents ==
  {[json |-> FALSE, null |-> FALSE, scenes |-> Undefined],
   [json |-> TRUE, null |-> TRUE, scenes |-> Undefined]}
  \cup {[json |-> TRUE, null |-> FALSE, scenes |-> v] :
          v \in {Undefined} \cup {Some(sv) : sv \in ScenesValues}}

\* ------------------------------------------------ parseProjectConfig

\* scene => ({ id: scene.id ?? index + 1, video, audio, subtitle })
SceneConfig(scene, index) ==
  [id |-> Val(Coalesce(scene.id, Some(index + 1))),
   video |-> scene.video, audio |-> scene.audio, subtitle |-> scene.subtitle]

\* parseProjectConfig(jsonFile): the ProjectConfig, or undefined when the
\* function throws (JSON.parse throws, `parsed.scenes` throws on null, or
\* the structure check throws; the catch rethrows).
ParseProjectConfig(doc) ==
  IF ~doc.json THEN Undefined
  ELSE IF doc.null THEN Undefined
  ELSE IF doc.scenes = Undefined THEN Undefined
  ELSE IF ~Val(doc.scenes).truthy \/ ~Val(doc.scenes).isArray THEN Undefined
  ELSE Some([scenes |->
               [k \in DOMAIN Val(doc.scenes).items |->
                  SceneConfig(Val(doc.scenes).items[k], k - 1)]])

\* handleFileSelect: `const config = parseProjectConfig(jsonFiles[0])`; a
\* throw leaves the try block before matchFilesToScenes is called.
ParseConfig ==
  /\ parsePc = "called"
  /\ config' = ParseProjectConfig(jsonFile)
  /\ parsePc' = IF ParseProjectConfig(jsonFile) = Undefined THEN "parseError" ELSE "parsed"
  /\ UNCHANGED <<jsonFile, extractedFiles, processedScenes, allCues, matchPc, sceneIndex,
                 audioTimelineCursor, probeFailed>>
  /\ UNCHANGED <<engineVars, renderVars>>

\* ------------------------------------------------ matchFilesToScenes, first pass

\* createObjectURL(file.data, getMimeType(file.name)): a media URL stands for
\* the content behind it
CreateObjectURL(file) == file.data

\* parseSubtitles(content, subtitleFile.name): every subtitle file of the
\* model holds one cue block.
ParseSubtitles(file) == <<[startTime |-> 0, endTime |-> 1, text |-> 1]>>

UrlOf(file) == IF file = Undefined THEN Undefined ELSE Some(CreateObjectURL(Val(file)))

ResolveSceneFirstSubtitle(scene, list, cues) ==
  LET videoFile == ResolveChannel(CategorizedVideos(list), scene.video, scene.id)
      audioFile == ResolveChannel(CategorizedAudios(list), scene.audio, scene.id)
      subtitleFile ==
        IF cues = Undefined /\ Len(CategorizedSubtitles(list)) > 0
        THEN Some(CategorizedSubtitles(list)[1])
        ELSE Undefined
  IN [id |-> scene.id,
      videoFile |-> videoFile, videoUrl |-> UrlOf(videoFile),
      audioFile |-> audioFile, audioUrl |-> UrlOf(audioFile),
      duration |-> Undefined, audioDuration |-> Undefined,
      subtitleFile |-> subtitleFile,
      subtitleCues |-> IF subtitleFile = Undefined THEN Undefined
                       ELSE Some(ParseSubtitles(Val(subtitleFile)))]

ResolveSceneOwnFileAlways(scene, list, cues) ==
  LET videoFile == ResolveChannel(CategorizedVideos(list), scene.video, scene.id)
      audioFile == ResolveChannel(CategorizedAudios(list), scene.audio, scene.id)
      subtitleFile == ResolveChannel(CategorizedSubtitles(list), scene.subtitle, scene.id)
  IN [id |-> scene.id,
      videoFile |-> videoFile, videoUrl |-> UrlOf(videoFile),
      audioFile |-> audioFile, audioUrl |-> UrlOf(audioFile),
      duration |-> Undefined, audioDuration |-> Undefined,
      subtitleFile |-> subtitleFile,
      subtitleCues |-> IF subtitleFile = Undefined THEN Undefined
                       ELSE Some(ParseSubtitles(Val(subtitleFile)))]

\* The body of `for (const scene of config.scenes)`: the ProcessedScene
\* pushed; duration and audioDuration are not set yet.
ResolveScene(scene, list, cues) ==
  LET videoFile == ResolveChannel(CategorizedVideos(list), scene.video, scene.id)
      audioFile == ResolveChannel(CategorizedAudios(list), scene.audio, scene.id)
      subtitleFile ==
        IF cues = Undefined
        THEN ResolveChannel(CategorizedSubtitles(list), scene.subtitle, scene.id)
        ELSE Undefined
  IN [id |-> scene.id,
      videoFile |-> videoFile, videoUrl |-> UrlOf(videoFile),
      audioFile |-> audioFile, audioUrl |-> UrlOf(audioFile),
      duration |-> Undefined, audioDuration |-> Undefined,
      subtitleFile |-> subtitleFile,
      subtitleCues |-> IF subtitleFile = Undefined THEN Undefined
                       ELSE Some(ParseSubtitles(Val(subtitleFile)))]

\* handleFileSelect: the cues of the first subtitle file, if there is one
SharedCues(list) ==
  IF Len(CategorizedSubtitles(list)) > 0
  THEN Some(ParseSubtitles(CategorizedSubtitles(list)[1]))
  ELSE Undefined

\* handleFileSelect after a successful parse: the shared cues are read and
\* matchFilesToScenes(config, extractedFiles, allCues) is called.
CallMatch ==
  /\ parsePc = "parsed"
  /\ matchPc = "idle"
  /\ allCues' = SharedCues(extractedFiles)
  /\ processedScenes' = <<>>
  /\ sceneIndex' = 1
  /\ matchPc' = IF Len(Val(config).scenes) = 0 THEN "probing" ELSE "firstPass"
  /\ UNCHANGED <<loadVars, audioTimelineCursor, probeFailed>>
  /\ UNCHANGED <<engineVars, renderVars>>

\* One iteration of the first pass.
MatchScene ==
  /\ matchPc = "firstPass"
  /\ processedScenes' =
       Append(processedScenes,
              ResolveScene(Val(config).scenes[sceneIndex], extractedFiles, allCues))
  /\ sceneIndex' = IF sceneIndex = Len(Val(config).scenes) THEN 1 ELSE sceneIndex + 1
  /\ matchPc' = IF sceneIndex = Len(Val(config).scenes) THEN "probing" ELSE "firstPass"
  /\ UNCHANGED <<loadVars, allCues, audioTimelineCursor, probeFailed>>
  /\ UNCHANGED <<engineVars, renderVars>>

\* The second and third pass read neither the document nor the file list:
\* both are left out of the states in which only these passes run.
LoadDone ==
  /\ jsonFile = [json |-> FALSE, null |-> FALSE, scenes |-> Undefined]
  /\ parsePc = "parsed"
  /\ config = Undefined
  /\ extractedFiles = <<>>

\* Nothing has been loaded yet.
LoadIdle ==
  /\ jsonFile = [json |-> FALSE, null |-> FALSE, scenes |-> Undefined]
  /\ parsePc = "idle"
  /\ config = Undefined
  /\ extractedFiles = <<>>

\* =====================================================================
\* matchFilesToScenes: second pass (duration probing) and third pass
\* (distribution of the shared cue sequence)
\* =====================================================================

\* A media URL stands for the asset behind it; the element created for it
\* reports that asset's duration once its metadata has loaded.
MediaUrls == {Undefined} \cup {Some(d) : d \in 1..MaxDur}

VideoUrls == {Undefined, Some(MaxDur)}

\* ProcessedScene after the first pass: files matched, URLs created.
MatchedScenes ==
  [videoUrl : VideoUrls, audioUrl : MediaUrls,
   duration : {Undefined}, audioDuration : {Undefined}, subtitleCues : {Undefined}]

\* The k-th cue of the shared track; text identifies the cue.
CueAt(k, s) == [startTime |-> s, endTime |-> s + k, text |-> k]

CueSequences ==
  UNION {{[k \in 1..n |-> CueAt(k, st[k])] : st \in [1..n -> 0..MaxStart]} : n \in 0..MaxCues}

\* matchFilesToScenes(config, files, allCues) after its first pass
MatchCalled ==
  /\ processedScenes \in UNION {[1..n -> MatchedScenes] : n \in 1..MaxScenes}
  /\ allCues \in {Undefined} \cup {Some(cs) : cs \in CueSequences}
  /\ matchPc = "probing"
  /\ sceneIndex = 1
  /\ audioTimelineCursor = 0
  /\ probeFailed = {}
  /\ LoadDone

\* matchFilesToScenes has not been called.
MatchIdle ==
  /\ processedScenes = <<>>
  /\ allCues = Undefined
  /\ matchPc = "idle"
  /\ sceneIndex = 1
  /\ audioTimelineCursor = 0
  /\ probeFailed = {}
  /\ LoadIdle

\* scene.videoUrl ? getVideoDuration(scene.videoUrl) : Promise.resolve(0)
ProbedDuration(url) == IF url # Undefined THEN Val(url) ELSE 0

\* allCues && allCues.length > 0
HasSharedCues == allCues # Undefined /\ Len(Val(allCues)) > 0

\* Every probe fires loadedmetadata: both Promise.all resolve and the
\* forEach assigns duration and audioDuration of every scene.
ProbeAllLoaded ==
  /\ matchPc = "probing"
  /\ processedScenes' =
       [i \in DOMAIN processedScenes |->
          [processedScenes[i] EXCEPT
             !.duration = Some(ProbedDuration(processedScenes[i].videoUrl)),
             !.audioDuration = Some(ProbedDuration(processedScenes[i].audioUrl))]]
  /\ matchPc' = IF HasSharedCues THEN "distributing" ELSE "returned"
  /\ audioTimelineCursor' = 0
  /\ UNCHANGED <<allCues, sceneIndex, probeFailed, loadVars>>
  /\ UNCHANGED <<engineVars, renderVars>>

\* The media element of one probe fires its error event: the probe's
\* promise rejects, Promise.all rejects, and the await at line 98 throws
\* out of matchFilesToScenes (no catch in the function).
ProbeError ==
  /\ matchPc = "probing"
  /\ \E i \in DOMAIN processedScenes, ch \in {"video", "audio"} :
       /\ (IF ch = "video" THEN processedScenes[i].videoUrl
                           ELSE processedScenes[i].audioUrl) # Undefined
       /\ probeFailed' = {<<i, ch>>}
  /\ matchPc' = "rejected"
  /\ UNCHANGED <<processedScenes, allCues, sceneIndex, audioTimelineCursor, loadVars>>
  /\ UNCHANGED <<engineVars, renderVars>>

\* const sceneAudioDuration = scene.audioDuration ?? scene.duration ?? 0
SceneAudioDuration(scene) ==
  Val(Coalesce(scene.audioDuration, Coalesce(scene.duration, Some(0))))

InWindowClosed(cue, cursor, endTime) == cue.startTime >= cursor /\ cue.startTime <= endTime

InWindowNoUpper(cue, cursor, endTime) == cue.startTime >= cursor

\* cue.startTime >= audioTimelineCursor && cue.startTime < sceneAudioEndTime
InWindow(cue, cursor, endTime) == cue.startTime >= cursor /\ cue.startTime < endTime

ShiftedStartOnly(cue, cursor) == [cue EXCEPT !.startTime = cue.startTime - cursor]

\* { ...cue, startTime: cue.startTime - cursor, endTime: cue.endTime - cursor }
Shifted(cue, cursor) ==
  [cue EXCEPT !.startTime = cue.startTime - cursor, !.endTime = cue.endTime - cursor]

SceneCuesLatestFirst(cues, cursor, endTime) ==
  LET Keep(c) == InWindow(c, cursor, endTime)
      kept == SelectSeq(cues, Keep)
  IN [k \in 1..Len(kept) |-> Shifted(kept[Len(kept) + 1 - k], cursor)]

\* allCues.filter(...).map(...)
SceneCues(cues, cursor, endTime) ==
  LET Keep(c) == InWindow(c, cursor, endTime)
      kept == SelectSeq(cues, Keep)
  IN [k \in 1..Len(kept) |-> Shifted(kept[k], cursor)]

AdvanceCursorNoCarry(cursor, dur) == IF dur > 0 THEN dur ELSE cursor

AdvanceCursorEveryScene(cursor, dur) == IF dur > 0 THEN cursor + dur ELSE cursor + 1

\* audioTimelineCursor = sceneAudioEndTime (inside `if (sceneAudioDuration > 0)`)
AdvanceCursor(cursor, dur) == IF dur > 0 THEN cursor + dur ELSE cursor

WithCuesAndWindow(scene, cues) ==
  [scene EXCEPT !.subtitleCues = Some(cues), !.duration = scene.audioDuration]

\* scene.subtitleCues = sceneCues
WithCues(scene, cues) == [scene EXCEPT !.subtitleCues = Some(cues)]

\* One iteration of `for (const scene of processedScenes)` of the third pass.
DistributeScene ==
  /\ matchPc = "distributing"
  /\ LET scene == processedScenes[sceneIndex]
         sceneAudioDuration == SceneAudioDuration(scene)
         sceneAudioEndTime == audioTimelineCursor + sceneAudioDuration
     IN /\ processedScenes' =
             IF sceneAudioDuration > 0
             THEN [processedScenes EXCEPT ![sceneIndex] =
                     WithCues(scene,
                              SceneCues(Val(allCues), audioTimelineCursor, sceneAudioEndTime))]
             ELSE processedScenes
        /\ audioTimelineCursor' = AdvanceCursor(audioTimelineCursor, sceneAudioDuration)
  /\ sceneIndex' = sceneIndex + 1
  /\ matchPc' = IF sceneIndex = Len(processedScenes) THEN "returned" ELSE "distributing"
  /\ UNCHANGED <<allCues, probeFailed, loadVars>>
  /\ UNCHANGED <<engineVars, renderVars>>

MatchNext == ProbeAllLoaded \/ ProbeError \/ DistributeScene

\* =====================================================================
\* getFFmpeg: the process-wide engine handle (src/unnamed/part_000)
\* =====================================================================

Callers == 1..MaxCallers

\* let ffmpegInstance = null; let ffmpegLoaded = false; let ffmpegLoading = false
\* Handles are numbered in order of creation; 0 is null.
EngineFresh ==
  /\ ffmpegInstance = 0
  /\ ffmpegLoaded = FALSE
  /\ ffmpegLoading = FALSE
  /\ getPc = [c \in Callers |-> "idle"]
  /\ loadTarget = [c \in Callers |-> 0]
  /\ returned = [c \in Callers |-> 0]
  /\ calls = [c \in Callers |-> 0]
  /\ created = 0
  /\ loadedHandles = {}

EngineReadyNever == FALSE

EngineReadyHandleOnly == ffmpegInstance # 0

\* if (ffmpegInstance && ffmpegLoaded)
EngineReady == ffmpegInstance # 0 /\ ffmpegLoaded

MustWaitNever(loading) == FALSE

\* if (ffmpegLoading) / while (ffmpegLoading)
MustWait(loading) == loading

\* return ffmpegInstance
ReturnHandle(c) ==
  /\ getPc' = [getPc EXCEPT ![c] = "returned"]
  /\ returned' = [returned EXCEPT ![c] = ffmpegInstance]
  /\ UNCHANGED <<ffmpegInstance, ffmpegLoaded, ffmpegLoading, loadTarget, created, loadedHandles>>

\* ffmpegLoading = true; ffmpegInstance = new FFmpeg(); then the first await
\* of the try block (toBlobURL, toBlobURL, load are one suspended stretch).
StartLoad(c) ==
  /\ ffmpegLoading' = TRUE
  /\ created' = created + 1
  /\ ffmpegInstance' = created + 1
  /\ loadTarget' = [loadTarget EXCEPT ![c] = created + 1]
  /\ getPc' = [getPc EXCEPT ![c] = "loading"]
  /\ UNCHANGED <<ffmpegLoaded, returned, loadedHandles>>

\* A call of getFFmpeg up to its first suspension or return.
GetFFmpegCall(c) ==
  /\ getPc[c] = "idle"
  /\ calls[c] < MaxCalls
  /\ calls' = [calls EXCEPT ![c] = calls[c] + 1]
  /\ IF EngineReady THEN ReturnHandle(c)
     ELSE IF MustWait(ffmpegLoading)
          THEN /\ getPc' = [getPc EXCEPT ![c] = "waiting"]
               /\ UNCHANGED <<ffmpegInstance, ffmpegLoaded, ffmpegLoading, loadTarget,
                              returned, created, loadedHandles>>
          ELSE StartLoad(c)

\* The 100 ms timer of a waiting caller fires and the loop condition is
\* false: the caller leaves the loop, returns the handle if it is loaded
\* and otherwise goes on to load.  (While ffmpegLoading is true the timer
\* is set again and nothing changes.)
WaitOver(c) ==
  /\ getPc[c] = "waiting"
  /\ ~MustWait(ffmpegLoading)
  /\ IF EngineReady THEN ReturnHandle(c) ELSE StartLoad(c)
  /\ UNCHANGED calls

\* load() resolves: ffmpegLoaded = true; return ffmpegInstance; and the
\* finally block clears ffmpegLoading.
LoadResolved(c) ==
  /\ getPc[c] = "loading"
  /\ loadedHandles' = loadedHandles \cup {loadTarget[c]}
  /\ ffmpegLoaded' = TRUE
  /\ returned' = [returned EXCEPT ![c] = ffmpegInstance]
  /\ ffmpegLoading' = FALSE
  /\ getPc' = [getPc EXCEPT ![c] = "returned"]
  /\ UNCHANGED <<ffmpegInstance, loadTarget, calls, created>>

\* toBlobURL or load() rejects: the finally block clears ffmpegLoading and
\* the error leaves getFFmpeg.
LoadRejected(c) ==
  /\ getPc[c] = "loading"
  /\ ffmpegLoading' = FALSE
  /\ getPc' = [getPc EXCEPT ![c] = "threw"]
  /\ UNCHANGED <<ffmpegInstance, ffmpegLoaded, loadTarget, returned, calls, created,
                 loadedHandles>>

\* The caller has its answer; it may call again later.
CallOver(c) ==
  /\ getPc[c] \in {"returned", "threw"}
  /\ getPc' = [getPc EXCEPT ![c] = "idle"]
  /\ UNCHANGED <<ffmpegInstance, ffmpegLoaded, ffmpegLoading, loadTarget, returned, calls,
                 created, loadedHandles>>


\* =====================================================================
\* processScenes: one render run (src/unnamed/part_000 and
\* src/src/utils/canvasProcessor.ts)
\* =====================================================================

\* A ProcessedScene as the renderers read it: videoFile and videoUrl are set
\* together by matchFilesToScenes, and so are audioFile and audioUrl.
RenderScenes == [id : 1..MaxScenes, hasVideo : BOOLEAN, hasAudio : BOOLEAN, hasCues : BOOLEAN]

\* Scene lists with distinct ids, in ascending or in descending id order.
RenderSceneLists ==
  UNION {{sl \in [1..n -> RenderScenes] :
            \/ \A k \in 1..n : sl[k].id = k
            \/ \A k \in 1..n : sl[k].id = n + 1 - k} : n \in 0..MaxScenes}

\* settings.subtitleSettings.timingOffset of a run
TimingOffsets == {0, 1}

\* No frame has been drawn.
NoFrame == [scene |-> -1, num |-> 0, den |-> 1, sub |-> Undefined]

One == [num |-> 1, den |-> 1]

NoFiles == [name \in {} |-> <<>>]

RunInit ==
  /\ scenes \in RenderSceneLists
  /\ engine \in {"canvas", "ffmpeg"}
  /\ syncMode \in {"trim", "speed"}
  /\ timingOffset \in TimingOffsets
  /\ engine = "canvas" => \A j, k \in DOMAIN scenes : scenes[j].hasCues = scenes[k].hasCues
  /\ engine = "ffmpeg" => syncMode = "trim" /\ timingOffset = 0
  /\ timingOffset # 0 => \E k \in DOMAIN scenes : scenes[k].hasCues
  /\ runPc = "called"
  /\ settled = "pending"
  /\ progressLog = <<>>
  /\ rendered = <<>>

CanvasIdle ==
  /\ currentSceneIndex = 0
  /\ scenePhase = "none"
  /\ audioDuration = 0
  /\ videoDuration = 0
  /\ playbackRate = One
  /\ effectiveDuration = 0
  /\ audioSource = FALSE
  /\ elapsed = 0
  /\ endedQueued = {}
  /\ recorder = "none"
  /\ stopQueued = FALSE
  /\ blobs = 0
  /\ audioFailed = {}
  /\ audioPlaying = {}
  /\ frameLoops = {}
  /\ lastFrame = NoFrame

FFmpegIdle ==
  /\ loopI = 0
  /\ outputFiles = <<>>
  /\ fs = NoFiles
  /\ passData = <<>>
  /\ cleanupK = 0
  /\ blobContent = <<>>

\* VideoAssembler while handleProcess awaits processScenes: setOutputBlob(null)
\* has run and the run was called with the settings' engine.
AssemblerIdle ==
  /\ settingsEngine = engine
  /\ outputBlob = FALSE
  /\ showFinalPreview = FALSE
  /\ downloadExt = "none"

\* processScenes has not been called.
RenderIdle ==
  /\ scenes = <<>>
  /\ engine = "canvas"
  /\ syncMode = "trim"
  /\ timingOffset = 0
  /\ runPc = "idle"
  /\ settled = "pending"
  /\ progressLog = <<>>
  /\ rendered = <<>>
  /\ CanvasIdle
  /\ FFmpegIdle
  /\ AssemblerIdle

HasVideo(scene) == scene.hasVideo

ValidScenesById(list) ==
  LET ById(a, b) == a.id < b.id IN SortSeq(SelectSeq(list, HasVideo), ById)

\* scenes.filter(s => s.videoUrl) / scenes.filter(s => s.videoFile)
ValidScenes(list) == SelectSeq(list, HasVideo)

\* Math.round(num / den) for num >= 0, den > 0
JsRound(num, den) == (2 * num + den) \div (2 * den)

\* onProgress({stage, progress, ...})
Progress(stage, progress) == [stage |-> stage, progress |-> progress]

\* Math.round(10 + ((currentSceneIndex + 1) / validScenes.length) * 80)
CanvasSceneProgress(idx, n) == JsRound(10 * n + (idx + 1) * 80, n)

PlaybackRateAlwaysSpeed(v, a, mode) ==
  IF a > 0 THEN [num |-> v, den |-> a] ELSE One

PlaybackRateUnguarded(v, a, mode) ==
  IF v > a
  THEN IF mode = "speed" THEN [num |-> v, den |-> a] ELSE One
  ELSE One

\* playbackRate of renderSceneToCanvas, the exact quotient v / a as a fraction
PlaybackRate(v, a, mode) ==
  IF a > 0 /\ v > a
  THEN IF mode = "speed" THEN [num |-> v, den |-> a] ELSE One
  ELSE One

EffectiveDurationSpeedOnly(v, a, mode) ==
  IF a > 0 /\ v > a
  THEN IF mode = "speed" THEN a ELSE v
  ELSE v

\* effectiveDuration of renderSceneToCanvas
EffectiveDuration(v, a, mode) ==
  IF a > 0 /\ v > a
  THEN IF mode = "speed" THEN a ELSE a
  ELSE v

\* scene.subtitleCues of a scene with cues: two overlapping cues in the
\* scene's own time, the first from 1 to 2 and the second from 1 to 3
SubtitleCues(scene) == IF scene.hasCues THEN <<CueAt(1, 1), CueAt(2, 1)>> ELSE <<>>

CurrentSubLatest(cues, num, den) ==
  LET Holds(sub) == num >= sub.startTime * den /\ num <= sub.endTime * den
      hits == SelectSeq(cues, Holds)
  IN IF Len(hits) = 0 THEN Undefined ELSE Some(hits[Len(hits)].text)

\* scene.subtitleCues.find(sub => currentTime >= sub.startTime &&
\* currentTime <= sub.endTime) for currentTime = num / den; the text of the
\* cue found
CurrentSub(cues, num, den) ==
  LET Holds(sub) == num >= sub.startTime * den /\ num <= sub.endTime * den
      hits == SelectSeq(cues, Holds)
  IN IF Len(hits) = 0 THEN Undefined ELSE Some(hits[1].text)

\* What drawFrame draws for the scene at index idx after t of playback at
\* the given rate: video.currentTime = t * rate and the subtitle found for it
FrameAt(idx, t, rate) ==
  LET num == t * rate.num
      den == rate.den
  IN [scene |-> idx, num |-> num, den |-> den,
      sub |-> CurrentSub(SubtitleCues(ValidScenes(scenes)[idx + 1]), num, den)]

FirstAwaitVideoOnly(scene) == "video"

\* The first await of renderSceneToCanvas: the audio fetch when the scene
\* has an audioUrl (line 146), the video load otherwise (line 168)
FirstAwait(scene) == IF scene.hasAudio THEN "audio" ELSE "video"

CancelAnimationFrameNoEffect(loops, j) == loops

\* cancelAnimationFrame(animationId) of the frame loop of scene j
CancelAnimationFrame(loops, j) == loops \ {j}

\* processNextScene() with currentSceneIndex = idx, up to its first
\* suspension: either mediaRecorder.stop(), or the progress event of the
\* scene and renderSceneToCanvas up to its first await.  rec is the
\* recorder's state.  stop() on a recorder that is no longer recording
\* changes nothing here: the run is already rejected then.
ProcessNextScene(idx, log, rec) ==
  LET valid == ValidScenes(scenes) IN
  /\ currentSceneIndex' = idx
  /\ audioDuration' = 0
  /\ audioSource' = FALSE
  /\ videoDuration' = 0
  /\ playbackRate' = One
  /\ effectiveDuration' = 0
  /\ elapsed' = 0
  /\ IF idx >= Len(valid)
     THEN /\ recorder' = IF rec = "recording" THEN "inactive" ELSE rec
          /\ stopQueued' = (stopQueued \/ rec = "recording")
          /\ scenePhase' = "none"
          /\ progressLog' = log
          /\ rendered' = rendered
     ELSE /\ recorder' = rec
          /\ stopQueued' = stopQueued
          /\ progressLog' =
               Append(log, Progress("processing", CanvasSceneProgress(idx, Len(valid))))
          /\ rendered' = Append(rendered, valid[idx + 1].id)
          /\ scenePhase' = FirstAwait(valid[idx + 1])

\* processScenesWithCanvas up to the first suspension: the empty check, the
\* first progress event, the recorder set-up and start, processNextScene().
CanvasStart ==
  /\ runPc = "called"
  /\ engine = "canvas"
  /\ IF Len(ValidScenes(scenes)) = 0
     THEN /\ settled' = "rejected"
          /\ runPc' = "done"
          /\ UNCHANGED <<progressLog, rendered, canvasVars>>
     ELSE /\ runPc' = "canvas"
          /\ ProcessNextScene(0, <<Progress("processing", 5)>>, "recording")
          /\ UNCHANGED <<settled, endedQueued, blobs, audioFailed, audioPlaying,
                         frameLoops, lastFrame>>
  /\ UNCHANGED <<scenes, engine, syncMode, timingOffset, ffVars, assemblerVars, matchVars,
                 engineVars>>

\* fetch, arrayBuffer and decodeAudioData succeed: the buffer source is
\* created and audioDuration is the decoded buffer's duration.
CanvasAudioDecoded ==
  /\ scenePhase = "audio"
  /\ \E a \in 1..MaxDur : audioDuration' = a
  /\ audioSource' = TRUE
  /\ scenePhase' = "video"
  /\ UNCHANGED <<runVars, currentSceneIndex, videoDuration, playbackRate, effectiveDuration,
                 elapsed, endedQueued, recorder, stopQueued, blobs, audioFailed,
                 audioPlaying, frameLoops, lastFrame, ffVars, assemblerVars, matchVars,
                 engineVars>>

\* Loading or decoding the audio throws: caught and logged (lines 162-164).
CanvasAudioFailed ==
  /\ scenePhase = "audio"
  /\ scenePhase' = "video"
  /\ audioFailed' = audioFailed \cup {currentSceneIndex}
  /\ UNCHANGED <<runVars, currentSceneIndex, audioDuration, audioSource, videoDuration,
                 playbackRate, effectiveDuration, elapsed, endedQueued, recorder, stopQueued,
                 blobs, audioPlaying, frameLoops, lastFrame, ffVars, assemblerVars,
                 matchVars, engineVars>>

\* video.onloadeddata: the sync decision, video.play(), audioSource.start(0)
\* when there is a source, and the first drawFrame(): elapsed is 0, so the
\* frame is drawn and the next animation frame is requested.
CanvasVideoLoaded ==
  /\ scenePhase = "video"
  /\ \E v \in 1..MaxDur :
       /\ videoDuration' = v
       /\ playbackRate' = PlaybackRate(v, audioDuration, syncMode)
       /\ effectiveDuration' = EffectiveDuration(v, audioDuration, syncMode)
       /\ lastFrame' = FrameAt(currentSceneIndex, 0, PlaybackRate(v, audioDuration, syncMode))
  /\ elapsed' = 0
  /\ audioPlaying' =
       IF audioSource THEN audioPlaying \cup {currentSceneIndex} ELSE audioPlaying
  /\ frameLoops' = frameLoops \cup {currentSceneIndex}
  /\ scenePhase' = "playing"
  /\ UNCHANGED <<runVars, currentSceneIndex, audioDuration, audioSource, endedQueued,
                 recorder, stopQueued, blobs, audioFailed, ffVars, assemblerVars, matchVars,
                 engineVars>>

\* video.onerror while the load is awaited (line 173): rej() makes the await
\* at line 168 throw inside the async executor of renderSceneToCanvas.  The
\* executor's own promise is rejected and dropped; neither resolve nor reject
\* of the scene's promise is ever called.
CanvasVideoLoadError ==
  /\ scenePhase = "video"
  /\ scenePhase' = "hung"
  /\ UNCHANGED <<runVars, currentSceneIndex, audioDuration, audioSource, videoDuration,
                 playbackRate, effectiveDuration, elapsed, endedQueued, recorder, stopQueued,
                 blobs, audioFailed, audioPlaying, frameLoops, lastFrame, ffVars,
                 assemblerVars, matchVars, engineVars>>

\* video.ended: the playback position elapsed * playbackRate has reached the
\* video's duration.
VideoAtEnd(t) == t * playbackRate.num >= videoDuration * playbackRate.den

\* Time passes while the scene plays; when the video reaches its end the
\* element queues its ended event.
CanvasTick ==
  /\ scenePhase = "playing"
  /\ elapsed < MaxDur
  /\ elapsed' = elapsed + 1
  /\ endedQueued' =
       IF VideoAtEnd(elapsed + 1) /\ ~VideoAtEnd(elapsed)
       THEN endedQueued \cup {currentSceneIndex}
       ELSE endedQueued
  /\ UNCHANGED <<runVars, currentSceneIndex, scenePhase, audioDuration, audioSource,
                 videoDuration, playbackRate, effectiveDuration, recorder, stopQueued, blobs,
                 audioFailed, audioPlaying, frameLoops, lastFrame, ffVars, assemblerVars,
                 matchVars, engineVars>>

ShouldStopAtVideoEnd == VideoAtEnd(elapsed)

\* shouldStop of drawFrame (video.paused is false while the scene plays)
ShouldStop == VideoAtEnd(elapsed) \/ (audioDuration > 0 /\ elapsed >= audioDuration)

\* The scene's promise resolves: `currentSceneIndex++; await processNextScene()`.
SceneResolved ==
  /\ ProcessNextScene(currentSceneIndex + 1, progressLog, recorder)
  /\ UNCHANGED <<scenes, engine, syncMode, timingOffset, runPc, settled, blobs, audioFailed,
                 lastFrame>>

\* An animation frame in which drawFrame does not stop: the video frame and
\* the subtitle found for video.currentTime are drawn and the next animation
\* frame is requested (lines 232-267).
CanvasFrameDraw ==
  /\ scenePhase = "playing"
  /\ currentSceneIndex \in frameLoops
  /\ ~ShouldStop
  /\ lastFrame' = FrameAt(currentSceneIndex, elapsed, playbackRate)
  /\ UNCHANGED <<runVars, currentSceneIndex, scenePhase, audioDuration, audioSource,
                 videoDuration, playbackRate, effectiveDuration, elapsed, endedQueued,
                 recorder, stopQueued, blobs, audioFailed, audioPlaying, frameLoops, ffVars,
                 assemblerVars, matchVars, engineVars>>

\* An animation frame in which drawFrame finds shouldStop: video.pause(),
\* audioSource.stop(), resolve().  Nothing is drawn and no further frame is
\* requested.
CanvasFrameStop ==
  /\ scenePhase = "playing"
  /\ currentSceneIndex \in frameLoops
  /\ ShouldStop
  /\ frameLoops' = frameLoops \ {currentSceneIndex}
  /\ audioPlaying' = audioPlaying \ {currentSceneIndex}
  /\ SceneResolved
  /\ UNCHANGED <<endedQueued, ffVars, assemblerVars, matchVars, engineVars>>

ScenePendingAlways(j) == TRUE

\* The promise of renderSceneToCanvas for scene j is still pending: the
\* scene is the one being awaited and neither resolve() nor reject() has
\* been called for it.
ScenePending(j) == j = currentSceneIndex /\ scenePhase = "playing"

\* video.onended of the video element of scene j (lines 272-283):
\* cancelAnimationFrame, audioSource.stop() inside try/catch, and resolve()
\* settles the scene's promise if it is still pending.
CanvasVideoEnded ==
  /\ \E j \in endedQueued :
       /\ endedQueued' = endedQueued \ {j}
       /\ frameLoops' = CancelAnimationFrame(frameLoops, j)
       /\ audioPlaying' = audioPlaying \ {j}
       /\ IF ScenePending(j)
          THEN SceneResolved
          ELSE UNCHANGED <<runVars, currentSceneIndex, scenePhase, audioDuration,
                           audioSource, videoDuration, playbackRate, effectiveDuration,
                           elapsed, recorder, stopQueued, blobs, audioFailed, lastFrame>>
  /\ UNCHANGED <<ffVars, assemblerVars, matchVars, engineVars>>

\* A promise settles once: reject() after a settlement changes nothing.
Reject(state) == IF state = "pending" THEN "rejected" ELSE state

\* resolve() after a settlement changes nothing.
Resolve(state) == IF state = "pending" THEN "resolved" ELSE state

\* video.onerror during playback (lines 285-288): cancelAnimationFrame, the
\* scene's promise is rejected, the await at line 90 throws and the catch
\* calls reject(error).  The audio source is not stopped.
CanvasPlaybackError ==
  /\ scenePhase = "playing"
  /\ scenePhase' = "failed"
  /\ settled' = Reject(settled)
  /\ frameLoops' = CancelAnimationFrame(frameLoops, currentSceneIndex)
  /\ UNCHANGED <<scenes, engine, syncMode, timingOffset, runPc, progressLog, rendered,
                 currentSceneIndex, audioDuration, audioSource, videoDuration, playbackRate,
                 effectiveDuration, elapsed, endedQueued, recorder, stopQueued, blobs,
                 audioFailed, audioPlaying, lastFrame, ffVars, assemblerVars, matchVars,
                 engineVars>>

\* mediaRecorder.onerror (lines 121-124): reject(...).  The handler leaves
\* the recorder alone; the browser either keeps it recording or makes it
\* inactive and fires stop next.
CanvasRecorderError ==
  /\ recorder = "recording"
  /\ settled' = Reject(settled)
  /\ \E halts \in BOOLEAN :
       /\ recorder' = IF halts THEN "inactive" ELSE recorder
       /\ stopQueued' = halts
  /\ UNCHANGED <<scenes, engine, syncMode, timingOffset, runPc, progressLog, rendered,
                 currentSceneIndex, scenePhase, audioDuration, audioSource, videoDuration,
                 playbackRate, effectiveDuration, elapsed, endedQueued, blobs, audioFailed,
                 audioPlaying, frameLoops, lastFrame, ffVars, assemblerVars, matchVars,
                 engineVars>>

\* mediaRecorder.onstop (lines 100-119): two progress events, the blob,
\* resolve(blob).
CanvasRecorderStop ==
  /\ stopQueued
  /\ stopQueued' = FALSE
  /\ progressLog' =
       progressLog \o <<Progress("encoding", 95), Progress("complete", 100)>>
  /\ blobs' = blobs + 1
  /\ settled' = Resolve(settled)
  /\ UNCHANGED <<scenes, engine, syncMode, timingOffset, runPc, rendered, currentSceneIndex,
                 scenePhase, audioDuration, audioSource, videoDuration, playbackRate,
                 effectiveDuration, elapsed, endedQueued, recorder, audioFailed,
                 audioPlaying, frameLoops, lastFrame, ffVars, assemblerVars, matchVars,
                 engineVars>>

CanvasNext ==
  \/ CanvasStart
  \/ CanvasAudioDecoded
  \/ CanvasAudioFailed
  \/ CanvasVideoLoaded
  \/ CanvasVideoLoadError
  \/ CanvasTick
  \/ CanvasFrameDraw
  \/ CanvasFrameStop
  \/ CanvasVideoEnded
  \/ CanvasPlaybackError
  \/ CanvasRecorderError
  \/ CanvasRecorderStop

\* ------------------------------------------------ the FFmpeg path

\* The run is one caller of getFFmpeg.
RunCaller == 1

\* The engine was initialised by an earlier run.
EngineWarm ==
  /\ ffmpegInstance = 1
  /\ ffmpegLoaded = TRUE
  /\ ffmpegLoading = FALSE
  /\ getPc = [c \in Callers |-> "idle"]
  /\ loadTarget = [c \in Callers |-> 0]
  /\ returned = [c \in Callers |-> 0]
  /\ calls = [c \in Callers |-> 0]
  /\ created = 1
  /\ loadedHandles = {1}

\* ffmpeg.writeFile(name, data) on the engine's file system
WriteFile(files, name, data) ==
  [f \in DOMAIN files \cup {name} |-> IF f = name THEN data ELSE files[f]]

\* ffmpeg.deleteFile(name)
DeleteFile(files, name) == [f \in DOMAIN files \ {name} |-> files[f]]

\* `scene${i}_video.mp4`, `scene${i}_audio.mp3`, `scene${i}_subs.srt`,
\* `scene${i}_output.mp4`, 'concat.txt', 'final_output.mp4'
FileName(kind, i) == <<kind, i>>

ConcatFile == FileName("concat", 0)

FinalFile == FileName("final", 0)

\* Math.round(10 + (i / validScenes.length) * 60)
FfmpegSceneProgress(i, n) == JsRound(10 * n + i * 60, n)

\* const scene = validScenes[i]
LoopScene == ValidScenes(scenes)[loopI + 1]

\* processScenes after `await getFFmpeg()`: the filter, the empty check, the
\* first progress event and the first iteration up to writeFile(video).
AfterGetFFmpeg ==
  LET n == Len(ValidScenes(scenes)) IN
  IF n = 0
  THEN /\ settled' = "rejected"
       /\ runPc' = "done"
       /\ UNCHANGED <<progressLog, loopI, outputFiles>>
  ELSE /\ progressLog' =
            <<Progress("processing", 5), Progress("processing", FfmpegSceneProgress(0, n))>>
       /\ loopI' = 0
       /\ outputFiles' = <<>>
       /\ runPc' = "writeVideo"
       /\ UNCHANGED settled

\* processScenes with settings.engine = 'ffmpeg', up to its first suspension.
FfmpegStart ==
  /\ runPc = "called"
  /\ engine = "ffmpeg"
  /\ GetFFmpegCall(RunCaller)
  /\ IF EngineReady
     THEN AfterGetFFmpeg
     ELSE /\ runPc' = "getFFmpeg"
          /\ UNCHANGED <<settled, progressLog, loopI, outputFiles>>
  /\ UNCHANGED <<scenes, engine, syncMode, timingOffset, rendered, fs, passData, cleanupK, blobContent,
                 canvasVars, assemblerVars, matchVars>>

\* The engine initialisation of the run succeeds.
FfmpegEngineLoaded ==
  /\ runPc = "getFFmpeg"
  /\ LoadResolved(RunCaller)
  /\ AfterGetFFmpeg
  /\ UNCHANGED <<scenes, engine, syncMode, timingOffset, rendered, fs, passData, cleanupK, blobContent,
                 canvasVars, assemblerVars, matchVars>>

\* The engine initialisation fails: the error leaves processScenes.
FfmpegEngineFailed ==
  /\ runPc = "getFFmpeg"
  /\ LoadRejected(RunCaller)
  /\ settled' = "rejected"
  /\ runPc' = "done"
  /\ UNCHANGED <<scenes, engine, syncMode, timingOffset, progressLog, rendered, ffVars, canvasVars, assemblerVars,
                 matchVars>>

\* await ffmpeg.writeFile(videoInputName, scene.videoFile.data).  (The
\* `continue` branch needs a videoFile without data, which no ExtractedFile is.)
FfmpegWriteVideo ==
  /\ runPc = "writeVideo"
  /\ fs' = WriteFile(fs, FileName("video", loopI), <<LoopScene.id>>)
  /\ runPc' = IF LoopScene.hasAudio THEN "writeAudio"
              ELSE IF LoopScene.hasCues THEN "writeSubs" ELSE "exec"
  /\ UNCHANGED <<scenes, engine, syncMode, timingOffset, settled, progressLog, rendered, loopI, outputFiles,
                 passData, cleanupK, blobContent, canvasVars, assemblerVars, matchVars, engineVars>>

\* await ffmpeg.writeFile(audioInputName, scene.audioFile.data)
FfmpegWriteAudio ==
  /\ runPc = "writeAudio"
  /\ fs' = WriteFile(fs, FileName("audio", loopI), <<LoopScene.id>>)
  /\ runPc' = IF LoopScene.hasCues THEN "writeSubs" ELSE "exec"
  /\ UNCHANGED <<scenes, engine, syncMode, timingOffset, settled, progressLog, rendered, loopI, outputFiles,
                 passData, cleanupK, blobContent, canvasVars, assemblerVars, matchVars, engineVars>>

\* await ffmpeg.writeFile(subtitleFilename, srtContent)
FfmpegWriteSubs ==
  /\ runPc = "writeSubs"
  /\ fs' = WriteFile(fs, FileName("subs", loopI), <<LoopScene.id>>)
  /\ runPc' = "exec"
  /\ UNCHANGED <<scenes, engine, syncMode, timingOffset, settled, progressLog, rendered, loopI, outputFiles,
                 passData, cleanupK, blobContent, canvasVars, assemblerVars, matchVars, engineVars>>

NeedsConcatAlways(files) == Len(files) >= 1

\* if (outputFiles.length > 1)
NeedsConcat(files) == Len(files) > 1

\* The end of one loop iteration: the next iteration up to writeFile(video),
\* or the code after the loop up to its first await.  files is outputFiles.
NextIteration(files) ==
  LET n == Len(ValidScenes(scenes)) IN
  /\ loopI' = loopI + 1
  /\ IF loopI + 1 < n
     THEN /\ progressLog' =
               Append(progressLog, Progress("processing", FfmpegSceneProgress(loopI + 1, n)))
          /\ runPc' = "writeVideo"
          /\ UNCHANGED settled
     ELSE IF Len(files) = 0
          THEN /\ settled' = "rejected"
               /\ runPc' = "done"
               /\ UNCHANGED progressLog
          ELSE /\ progressLog' = Append(progressLog, Progress("encoding", 75))
               /\ runPc' = IF NeedsConcat(files) THEN "concatWrite" ELSE "passRead"
               /\ UNCHANGED settled

\* await ffmpeg.exec(ffmpegArgs) resolves, with exit code 0 and the segment
\* written, or with another exit code and no segment (the code is not read);
\* outputFiles.push(sceneOutputName).
FfmpegExec ==
  /\ runPc = "exec"
  /\ \E ok \in BOOLEAN :
       fs' = IF ok THEN WriteFile(fs, FileName("output", loopI), <<LoopScene.id>>) ELSE fs
  /\ outputFiles' = Append(outputFiles, loopI)
  /\ rendered' = Append(rendered, LoopScene.id)
  /\ IF LoopScene.hasCues
     THEN /\ runPc' = "deleteSubs"
          /\ UNCHANGED <<settled, progressLog, loopI>>
     ELSE NextIteration(Append(outputFiles, loopI))
  /\ UNCHANGED <<scenes, engine, syncMode, timingOffset, passData, cleanupK, blobContent, canvasVars, assemblerVars,
                 matchVars, engineVars>>

\* await ffmpeg.deleteFile(subtitleFilename) resolves
FfmpegDeleteSubs ==
  /\ runPc = "deleteSubs"
  /\ fs' = DeleteFile(fs, FileName("subs", loopI))
  /\ NextIteration(outputFiles)
  /\ UNCHANGED <<scenes, engine, syncMode, timingOffset, rendered, outputFiles, passData, cleanupK,
                 blobContent, canvasVars, assemblerVars, matchVars, engineVars>>

\* await ffmpeg.writeFile('concat.txt', concatContent)
FfmpegConcatWrite ==
  /\ runPc = "concatWrite"
  /\ fs' = WriteFile(fs, ConcatFile, outputFiles)
  /\ runPc' = "concatExec"
  /\ UNCHANGED <<scenes, engine, syncMode, timingOffset, settled, progressLog, rendered, loopI, outputFiles,
                 passData, cleanupK, blobContent, canvasVars, assemblerVars, matchVars, engineVars>>

RECURSIVE Joined(_, _, _)
\* The stream-copy join of the segments list[1..k] of the concat list
Joined(files, list, k) ==
  IF k = 0 THEN <<>>
  ELSE Joined(files, list, k - 1) \o files[FileName("output", list[k])]

\* The concat exec resolves: exit code 0 and final_output.mp4 written (every
\* listed segment exists), or another exit code and nothing written.
FfmpegConcatExec ==
  /\ runPc = "concatExec"
  /\ LET list == fs[ConcatFile] IN
     \E ok \in BOOLEAN :
       /\ ok => \A k \in DOMAIN list : FileName("output", list[k]) \in DOMAIN fs
       /\ fs' = IF ok THEN WriteFile(fs, FinalFile, Joined(fs, list, Len(list))) ELSE fs
  /\ progressLog' = Append(progressLog, Progress("encoding", 95))
  /\ runPc' = "finalRead"
  /\ UNCHANGED <<scenes, engine, syncMode, timingOffset, settled, rendered, loopI, outputFiles, passData,
                 cleanupK, blobContent, canvasVars, assemblerVars, matchVars, engineVars>>

\* const data = await ffmpeg.readFile(outputFiles[0])
FfmpegPassRead ==
  /\ runPc = "passRead"
  /\ FileName("output", outputFiles[1]) \in DOMAIN fs
  /\ passData' = fs[FileName("output", outputFiles[1])]
  /\ runPc' = "passWrite"
  /\ UNCHANGED <<scenes, engine, syncMode, timingOffset, settled, progressLog, rendered, loopI, outputFiles,
                 fs, cleanupK, blobContent, canvasVars, assemblerVars, matchVars, engineVars>>

\* await ffmpeg.writeFile('final_output.mp4', data)
FfmpegPassWrite ==
  /\ runPc = "passWrite"
  /\ fs' = WriteFile(fs, FinalFile, passData)
  /\ progressLog' = Append(progressLog, Progress("encoding", 95))
  /\ runPc' = "finalRead"
  /\ UNCHANGED <<scenes, engine, syncMode, timingOffset, settled, rendered, loopI, outputFiles, passData,
                 cleanupK, blobContent, canvasVars, assemblerVars, matchVars, engineVars>>

\* const outputData = await ffmpeg.readFile('final_output.mp4'); the blob
FfmpegFinalRead ==
  /\ runPc = "finalRead"
  /\ FinalFile \in DOMAIN fs
  /\ blobContent' = fs[FinalFile]
  /\ cleanupK' = 0
  /\ runPc' = "cleanup"
  /\ UNCHANGED <<scenes, engine, syncMode, timingOffset, settled, progressLog, rendered, loopI, outputFiles,
                 fs, passData, canvasVars, assemblerVars, matchVars, engineVars>>

\* One iteration of the cleanup loop: deleteFile resolves, or rejects and is
\* swallowed; after the last one the 'complete' event and the return.
FfmpegCleanup ==
  /\ runPc = "cleanup"
  /\ LET name == FileName("output", outputFiles[cleanupK + 1]) IN
     \E ok \in BOOLEAN :
       /\ ok => name \in DOMAIN fs
       /\ fs' = IF ok THEN DeleteFile(fs, name) ELSE fs
  /\ cleanupK' = cleanupK + 1
  /\ IF cleanupK + 1 = Len(outputFiles)
     THEN /\ progressLog' = Append(progressLog, Progress("complete", 100))
          /\ settled' = "resolved"
          /\ runPc' = "done"
     ELSE UNCHANGED <<progressLog, settled, runPc>>
  /\ UNCHANGED <<scenes, engine, syncMode, timingOffset, rendered, loopI, outputFiles, passData,
                 blobContent, canvasVars, assemblerVars, matchVars, engineVars>>

\* The awaits of processScenes outside a try block
UnguardedAwaits ==
  {"writeVideo", "writeAudio", "writeSubs", "exec", "deleteSubs", "concatWrite",
   "concatExec", "passRead", "passWrite", "finalRead"}

\* The engine rejects one of these awaits: the error leaves processScenes.
FfmpegAwaitRejected ==
  /\ runPc \in UnguardedAwaits
  /\ settled' = "rejected"
  /\ runPc' = "done"
  /\ UNCHANGED <<scenes, engine, syncMode, timingOffset, progressLog, rendered, ffVars, canvasVars, assemblerVars,
                 matchVars, engineVars>>

FfmpegNext ==
  \/ FfmpegStart
  \/ FfmpegEngineLoaded
  \/ FfmpegEngineFailed
  \/ FfmpegWriteVideo
  \/ FfmpegWriteAudio
  \/ FfmpegWriteSubs
  \/ FfmpegExec
  \/ FfmpegDeleteSubs
  \/ FfmpegConcatWrite
  \/ FfmpegConcatExec
  \/ FfmpegPassRead
  \/ FfmpegPassWrite
  \/ FfmpegFinalRead
  \/ FfmpegCleanup
  \/ FfmpegAwaitRejected

\* =====================================================================
\* VideoAssembler: the handlers around a render run
\* (src/src/components/video-assembler/SceneList.tsx)
\* =====================================================================

\* isProcessing of VideoAssembler, from the status the run reported last
IsProcessing ==
  /\ progressLog # <<>>
  /\ progressLog[Len(progressLog)].stage \in
       {"extracting", "parsing", "processing", "encoding"}

\* disabled={!hasScenes || isProcessing} of the Generate button
GenerateDisabled == Len(scenes) = 0 \/ IsProcessing

\* handleProcess after `await processScenes(...)` has resolved:
\* setOutputBlob(blob); setShowFinalPreview(true).
HandleProcessResolved ==
  /\ settled = "resolved"
  /\ ~outputBlob
  /\ outputBlob' = TRUE
  /\ showFinalPreview' = TRUE
  /\ UNCHANGED <<settingsEngine, downloadExt, runVars, canvasVars, ffVars, matchVars,
                 engineVars>>

\* handleEditSettings: setShowFinalPreview(false); outputBlob is kept.
HandleEditSettings ==
  /\ showFinalPreview
  /\ showFinalPreview' = FALSE
  /\ UNCHANGED <<settingsEngine, outputBlob, downloadExt, runVars, canvasVars, ffVars,
                 matchVars, engineVars>>

\* An engine button of ProcessingPanel, shown while the final preview is
\* hidden and disabled while isProcessing: onSettingsChange({...settings,
\* engine: e}).  Only a change after the run's blob was stored is modelled;
\* the engine of the run itself is the one the run starts with.
SetEngine ==
  /\ outputBlob
  /\ ~showFinalPreview
  /\ ~IsProcessing
  /\ \E e \in {"canvas", "ffmpeg"} :
       /\ e # settingsEngine
       /\ settingsEngine' = e
  /\ UNCHANGED <<outputBlob, showFinalPreview, downloadExt, runVars, canvasVars, ffVars,
                 matchVars, engineVars>>

\* const ext = settings.engine === 'canvas' ? 'webm' : 'mp4'
DownloadExtension(e) == IF e = "canvas" THEN "webm" ELSE "mp4"

\* handleDownload: `if (outputBlob)` downloadBlob(outputBlob,
\* `assembled-video.${ext}`).
HandleDownload ==
  /\ outputBlob
  /\ downloadExt' = DownloadExtension(settingsEngine)
  /\ UNCHANGED <<settingsEngine, outputBlob, showFinalPreview, runVars, canvasVars, ffVars,
                 matchVars, engineVars>>

AssemblerNext ==
  \/ HandleProcessResolved
  \/ HandleEditSettings
  \/ SetEngine
  \/ HandleDownload

RenderInit ==
  /\ RunInit
  /\ CanvasIdle
  /\ FFmpegIdle
  /\ AssemblerIdle
  /\ EngineFresh \/ (engine = "ffmpeg" /\ EngineWarm)
  /\ MatchIdle

RenderNext == CanvasNext \/ FfmpegNext \/ AssemblerNext

SpecRender == RenderInit /\ [][RenderNext]_vars

\* Every media element fires its success or its error event, time passes
\* while a scene plays, and every requested frame callback and queued
\* event handler runs.  Errors during playback and recorder errors are not
\* bound to happen.
CanvasFairness ==
  /\ WF_vars(CanvasStart)
  /\ WF_vars(CanvasAudioDecoded \/ CanvasAudioFailed)
  /\ WF_vars(CanvasVideoLoaded \/ CanvasVideoLoadError)
  /\ WF_vars(CanvasTick)
  /\ WF_vars(CanvasFrameStop)
  /\ WF_vars(CanvasVideoEnded)
  /\ WF_vars(CanvasRecorderStop)

SpecRenderFair == SpecRender /\ CanvasFairness

EngineInit == EngineFresh /\ MatchIdle /\ RenderIdle

EngineNext ==
  \/ \E c \in Callers : GetFFmpegCall(c) /\ UNCHANGED <<matchVars, renderVars>>
  \/ \E c \in Callers : WaitOver(c) /\ UNCHANGED <<matchVars, renderVars>>
  \/ \E c \in Callers : LoadResolved(c) /\ UNCHANGED <<matchVars, renderVars>>
  \/ \E c \in Callers : LoadRejected(c) /\ UNCHANGED <<matchVars, renderVars>>
  \/ \E c \in Callers : CallOver(c) /\ UNCHANGED <<matchVars, renderVars>>

SpecEngine == EngineInit /\ [][EngineNext]_vars

\* The 100 ms timer of a waiting caller fires with ffmpegLoading false.
TimerFires(c) == WaitOver(c) /\ UNCHANGED <<matchVars, renderVars>>

\* The promise of `await ffmpegInstance.load(...)` settles.
LoadSettles(c) == (LoadResolved(c) \/ LoadRejected(c)) /\ UNCHANGED <<matchVars, renderVars>>

\* getFFmpeg where every timer set fires and every load settles
SpecEngineFair ==
  /\ SpecEngine
  /\ \A c \in Callers : WF_vars(TimerFires(c)) /\ WF_vars(LoadSettles(c))

MatchInit == MatchCalled /\ EngineFresh /\ RenderIdle

\* handleFileSelect has extracted the archive and found the configuration
\* file; at most one media or subtitle entry besides it.
ParseInit ==
  /\ jsonFile \in Documents
  /\ parsePc = "called"
  /\ config = Undefined
  /\ extractedFiles \in {list \in ExtractedFileLists : Len(list) <= 1}
  /\ processedScenes = <<>>
  /\ allCues = Undefined
  /\ matchPc = "idle"
  /\ sceneIndex = 1
  /\ audioTimelineCursor = 0
  /\ probeFailed = {}
  /\ EngineFresh
  /\ RenderIdle

ParseNext == ParseConfig \/ CallMatch \/ MatchScene

SpecParse == ParseInit /\ [][ParseNext]_vars

\* Documents whose scenes all carry an id; the scenes that name files are
\* scene 2, with the names of entries, and scene 20, with names that match
\* nothing.
ResolveDocuments ==
  {doc \in Documents :
     /\ ParseProjectConfig(doc) # Undefined
     /\ Len(Val(doc.scenes).items) >= 1
     /\ \A k \in DOMAIN Val(doc.scenes).items :
          LET scene == Val(doc.scenes).items[k] IN
            /\ scene.id # Undefined
            /\ scene.video # Undefined =>
                 \/ scene.id = Some(2) /\ scene.video # Some(NoSuchVideo)
                 \/ scene.id = Some(20) /\ scene.video = Some(NoSuchVideo)}

\* The shared cue sequences handleFileSelect can pass for a list with a
\* subtitle file: the cues parsed from the first subtitle file, which are
\* none when the file holds no valid block
PassedCues(list) ==
  IF Len(CategorizedSubtitles(list)) > 0 THEN {SharedCues(list), Some(<<>>)} ELSE {}

\* matchFilesToScenes(config, files, allCues) has been called with a parsed
\* configuration and a list of extracted files, without shared cues or with
\* the cues of the list's first subtitle file.
ResolveInit ==
  /\ jsonFile \in ResolveDocuments
  /\ parsePc = "parsed"
  /\ config = ParseProjectConfig(jsonFile)
  /\ extractedFiles \in ExtractedFileLists
  /\ processedScenes = <<>>
  /\ allCues \in {Undefined} \cup PassedCues(extractedFiles)
  /\ matchPc = "firstPass"
  /\ sceneIndex = 1
  /\ audioTimelineCursor = 0
  /\ probeFailed = {}
  /\ EngineFresh
  /\ RenderIdle

ResolveNext == MatchScene

SpecResolve == ResolveInit /\ [][ResolveNext]_vars

\* The three passes of matchFilesToScenes, one after the other
MatchAllNext == MatchScene \/ ProbeAllLoaded \/ ProbeError \/ DistributeScene

SpecMatchAll == ResolveInit /\ [][MatchAllNext]_vars

SpecMatch == MatchInit /\ [][MatchNext]_vars

\* =====================================================================
\* Properties of matchFilesToScenes (checked under SpecMatch)
\* =====================================================================

RECURSIVE WindowStart(_, _)
\* Sum of the window widths of the scenes before scene i.
WindowStart(list, i) ==
  IF i <= 1 THEN 0 ELSE WindowStart(list, i - 1) + SceneAudioDuration(list[i - 1])

TotalDuration(list) == WindowStart(list, Len(list) + 1)

\* The positions at which the cue with text k occurs in a scene's subtitleCues.
Occurrences(scene, k) ==
  IF scene.subtitleCues = Undefined THEN {}
  ELSE {j \in DOMAIN Val(scene.subtitleCues) : Val(scene.subtitleCues)[j].text = k}

ScenesHolding(k) == {i \in DOMAIN processedScenes : Occurrences(processedScenes[i], k) # {}}

WindowOwners(s) ==
  {i \in DOMAIN processedScenes :
     /\ WindowStart(processedScenes, i) <= s
     /\ s < WindowStart(processedScenes, i) + SceneAudioDuration(processedScenes[i])}

AudioElseVideo(scene) ==
  IF Val(scene.audioDuration) > 0 THEN Val(scene.audioDuration)
  ELSE IF Val(scene.duration) > 0 THEN Val(scene.duration)
  ELSE 0

\* C2: during distribution every scene's window has width "audio duration
\* if > 0, else video duration, else 0", and the cursor advances by it.
C2_WindowIsAudioElseVideo ==
  [][matchPc = "distributing" =>
       audioTimelineCursor' =
         audioTimelineCursor + AudioElseVideo(processedScenes[sceneIndex])]_vars

\* C3: when a duration probe has failed, matchFilesToScenes is not rejected:
\* it goes on with the failed channel's duration taken as 0.
C3_ProbeFailureRecovered ==
  \A f \in probeFailed :
    /\ matchPc \in {"distributing", "returned"}
    /\ (IF f[2] = "video" THEN processedScenes[f[1]].duration
                          ELSE processedScenes[f[1]].audioDuration) = Some(0)

C11_LateCuesDropped ==
  /\ [](matchPc = "returned" /\ HasSharedCues =>
         \A k \in DOMAIN Val(allCues) :
           Val(allCues)[k].startTime >= audioTimelineCursor => ScenesHolding(k) = {})
  /\ [][matchPc = "distributing" => matchPc' \in {"distributing", "returned"}]_vars

\* The pass has returned, the cursor has advanced, and a cue starts exactly
\* at the final cursor: no scene holds it.
C11_Witness ==
  /\ matchPc = "returned" /\ HasSharedCues
  /\ audioTimelineCursor > 0
  /\ audioTimelineCursor = TotalDuration(processedScenes)
  /\ \E k \in DOMAIN Val(allCues) :
       /\ Val(allCues)[k].startTime = audioTimelineCursor
       /\ ScenesHolding(k) = {}

\* The cue of the shared sequence that an assigned cue was made from
SourceCue(cue) == Val(allCues)[cue.text]

AssignedCues(scene) ==
  IF scene.subtitleCues = Undefined THEN <<>> ELSE Val(scene.subtitleCues)

\* C25: every cue in a scene's subtitleCues after distribution is a cue of
\* the shared sequence with startTime and endTime both reduced by the cursor
\* at the start of the scene's window: its length is unchanged, its
\* startTime lies in [0, window width), and its endTime is the shifted source
\* endTime whether or not that is within the window.
C25_BothTimesShifted ==
  (matchPc \in {"distributing", "returned"} /\ HasSharedCues) =>
    \A i \in DOMAIN processedScenes :
      \A j \in DOMAIN AssignedCues(processedScenes[i]) :
        LET cue == AssignedCues(processedScenes[i])[j]
            source == SourceCue(cue)
            cursor == WindowStart(processedScenes, i)
        IN /\ cue.startTime = source.startTime - cursor
           /\ cue.endTime = source.endTime - cursor
           /\ cue.endTime - cue.startTime = source.endTime - source.startTime
           /\ cue.startTime >= 0
           /\ cue.startTime < SceneAudioDuration(processedScenes[i])

\* The second scene's window starts at a cursor above 0 and holds a cue that
\* ends after the window does.
C25_Witness ==
  /\ matchPc = "returned" /\ HasSharedCues
  /\ Len(processedScenes) = 2
  /\ WindowStart(processedScenes, 2) > 0
  /\ \E j \in DOMAIN AssignedCues(processedScenes[2]) :
       LET cue == AssignedCues(processedScenes[2])[j] IN
         /\ cue.endTime > SceneAudioDuration(processedScenes[2])
         /\ cue.endTime = SourceCue(cue).endTime - WindowStart(processedScenes, 2)

\* C26: within each scene the assigned cues are in the order of their
\* positions in the shared sequence, and no step of matchFilesToScenes
\* changes the shared sequence.
C26_SourceOrderKept ==
  /\ [](\A i \in DOMAIN processedScenes :
          \A j, k \in DOMAIN AssignedCues(processedScenes[i]) :
            j < k => AssignedCues(processedScenes[i])[j].text
                       < AssignedCues(processedScenes[i])[k].text)
  /\ [][allCues' = allCues]_vars

\* A scene holds two cues in source order although the second of them
\* starts earlier than the first.
C26_Witness ==
  /\ matchPc = "returned" /\ HasSharedCues
  /\ \E i \in DOMAIN processedScenes :
       /\ Len(AssignedCues(processedScenes[i])) = 2
       /\ AssignedCues(processedScenes[i])[1].text = 1
       /\ AssignedCues(processedScenes[i])[2].text = 2
       /\ AssignedCues(processedScenes[i])[2].startTime
            < AssignedCues(processedScenes[i])[1].startTime

\* C27: the iteration of the distribution pass for a scene whose audio and
\* video durations are both 0 assigns it no cues and leaves the cursor as it
\* was, so the next scene's window starts at the same cursor.
C27_EmptySceneKeepsCursor ==
  [][(matchPc = "distributing" /\ AudioElseVideo(processedScenes[sceneIndex]) = 0) =>
       /\ audioTimelineCursor' = audioTimelineCursor
       /\ AssignedCues(processedScenes'[sceneIndex]) = <<>>
       /\ sceneIndex' = sceneIndex + 1]_vars

\* The first scene has no media; the second one's window starts at 0 and
\* holds the cue that starts at 0.
C27_Witness ==
  /\ matchPc = "returned" /\ HasSharedCues
  /\ Len(processedScenes) = 2
  /\ AudioElseVideo(processedScenes[1]) = 0
  /\ AssignedCues(processedScenes[1]) = <<>>
  /\ \E j \in DOMAIN AssignedCues(processedScenes[2]) :
       SourceCue(AssignedCues(processedScenes[2])[j]).startTime = 0

\* The durations the probing pass assigned
Durations(list) == [i \in DOMAIN list |-> <<list[i].duration, list[i].audioDuration>>]

\* C23: once the probing pass has assigned the durations, no step changes
\* the duration or the audioDuration of any scene.
C23_DurationsImmutable ==
  [][(matchPc \in {"distributing", "returned"}) =>
       Durations(processedScenes') = Durations(processedScenes)]_vars

\* Distribution has assigned cues to a scene whose probed durations differ.
C23_Witness ==
  /\ matchPc = "returned" /\ HasSharedCues
  /\ \E i \in DOMAIN processedScenes :
       /\ AssignedCues(processedScenes[i]) # <<>>
       /\ processedScenes[i].duration # processedScenes[i].audioDuration
       /\ Val(processedScenes[i].audioDuration) > 0

\* =====================================================================
\* Properties of parseProjectConfig and of the first pass of
\* matchFilesToScenes (checked under SpecParse and SpecResolve)
\* =====================================================================

\* The document has a "scenes" member that is a non-empty array.
HasNonEmptySceneArray(doc) ==
  /\ doc.json
  /\ ~doc.null
  /\ doc.scenes # Undefined
  /\ Val(doc.scenes).isArray
  /\ Len(Val(doc.scenes).items) >= 1

\* C16: once parseProjectConfig has run, a document that is no JSON, or has
\* no "scenes" array, or an empty one, has been rejected with the parse
\* error and matchFilesToScenes is never called for it; a document with a
\* non-empty scenes array has been accepted with all its scenes.
C16_ParseRejectsMalformed ==
  parsePc # "called" =>
    IF HasNonEmptySceneArray(jsonFile)
    THEN /\ parsePc = "parsed"
         /\ Len(Val(config).scenes) = Len(Val(jsonFile.scenes).items)
    ELSE /\ parsePc = "parseError"
         /\ config = Undefined
         /\ matchPc = "idle"
         /\ processedScenes = <<>>

Channels == {"video", "audio", "subtitle"}

\* The channels the first pass resolves: the subtitle channel only when no
\* shared cues were passed.
ResolvedChannels == IF allCues = Undefined THEN Channels ELSE {"video", "audio"}

ChannelAssets(ch) ==
  CASE ch = "video" -> CategorizedVideos(extractedFiles)
    [] ch = "audio" -> CategorizedAudios(extractedFiles)
    [] OTHER -> CategorizedSubtitles(extractedFiles)

ChannelRef(scene, ch) ==
  CASE ch = "video" -> scene.video [] ch = "audio" -> scene.audio [] OTHER -> scene.subtitle

BoundFile(scene, ch) ==
  CASE ch = "video" -> scene.videoFile
    [] ch = "audio" -> scene.audioFile
    [] OTHER -> scene.subtitleFile

IsNamed(ref) == ref # Undefined /\ Len(Val(ref)) > 0

\* The step of the resolver at which file f matches the reference ref of a
\* scene with the given id: 1 exact file name, 2 name without extension,
\* 3 containment, 4 positional pattern, 5 no match.
StepOf(f, ref, id) ==
  IF IsNamed(ref) /\ ExactMatch(f, Val(ref)) THEN 1
  ELSE IF IsNamed(ref) /\ BaseMatch(f, Val(ref)) THEN 2
  ELSE IF IsNamed(ref) /\ PartialMatch(f, Val(ref)) THEN 3
  ELSE IF PositionalMatch(f, id) THEN 4
  ELSE 5

\* The step at which each file of the list matches
StepsOf(list, ref, id) == [k \in DOMAIN list |-> StepOf(list[k], ref, id)]

\* The earliest of the steps (5: no file matches)
Earliest(steps) ==
  LET range == {steps[k] : k \in DOMAIN steps} \cup {5}
  IN CHOOSE b \in range : \A x \in range : b <= x

AllChannelsAbsent(scene) ==
  /\ scene.videoFile = Undefined /\ scene.videoUrl = Undefined
  /\ scene.audioFile = Undefined /\ scene.audioUrl = Undefined
  /\ scene.subtitleFile = Undefined /\ scene.subtitleCues = Undefined

SceneNumberName(stem, sep, n) ==
  stem \o <<"s", "c", "e", "n", "e">> \o sep \o NumberToString(n) \o <<".", "m", "p", "4">>

SceneNameStems == {<<>>, <<"c", "l", "i", "p", "_">>, <<"i", "n", "t", "r", "o", "_">>}

SceneNameSeparators == {<<>>, <<"_">>, <<"-">>, <<" ">>}

ClipScene2 == ExtractedFile(<<"c", "l", "i", "p", "_", "s", "c", "e", "n", "e", "_", "2", ".", "m", "p", "4">>)

\* C19: a scene without a video reference is never bound to a video named
\* <stem>scene<sep?><n>.mp4 with n different from the scene's id (so
\* clip_scene_2.mp4 is not bound to scene 20 or scene 12), and it is bound
\* to clip_scene_2.mp4 when its id is 2 and that is the only video file
\* numbered 2.
C19_WholeSceneNumbers ==
  \A i \in DOMAIN processedScenes :
    LET scene == Val(config).scenes[i]
        bound == processedScenes[i].videoFile
    IN scene.video = Undefined =>
         /\ bound # Undefined =>
              \A stem \in SceneNameStems, sep \in SceneNameSeparators, n \in SceneIds :
                ToLowerCase(Val(bound).name) = SceneNumberName(stem, sep, n) => n = scene.id
         /\ scene.id \in {12, 20} => bound # Some(ClipScene2)
         /\ (scene.id = 2 /\ \E k \in DOMAIN extractedFiles : extractedFiles[k] = ClipScene2)
              => bound = Some(ClipScene2)

\* scene20.mp4 comes first in the list, and scene 2 is bound to
\* clip_scene_2.mp4 all the same.
C19_Witness ==
  /\ Len(extractedFiles) >= 2
  /\ extractedFiles[1] = ExtractedFile(<<"s", "c", "e", "n", "e", "2", "0", ".", "m", "p", "4">>)
  /\ \E i \in DOMAIN processedScenes :
       /\ Val(config).scenes[i].id = 2
       /\ Val(config).scenes[i].video = Undefined
       /\ processedScenes[i].videoFile = Some(ClipScene2)

\* C20: in every resolved channel the bound file is one that matches at the
\* earliest step at which any file of the channel's kind matches (exact file
\* name, name without extension, containment, positional pattern, the first
\* three only for a named reference), it is the first such file in list
\* order, and the channel is absent exactly when no file matches at any step.
C20_ResolverStepOrder ==
  \A i \in DOMAIN processedScenes :
    \A ch \in ResolvedChannels :
      LET scene == Val(config).scenes[i]
          ref == ChannelRef(scene, ch)
          list == ChannelAssets(ch)
          steps == StepsOf(list, ref, scene.id)
          best == Earliest(steps)
          bound == BoundFile(processedScenes[i], ch)
      IN IF best = 5 THEN bound = Undefined
         ELSE /\ bound # Undefined
              /\ \E k \in DOMAIN list :
                   /\ list[k] = Val(bound)
                   /\ steps[k] = best
                   /\ \A j \in 1..(k - 1) : steps[j] > best

\* intro.mov (a match on the name without extension) precedes v/Intro.mp4
\* (an exact match) in the list, and the scene naming intro.mp4 is bound to
\* v/Intro.mp4.
C20_Witness ==
  /\ Len(extractedFiles) >= 2
  /\ extractedFiles[1] = ExtractedFile(<<"i", "n", "t", "r", "o", ".", "m", "o", "v">>)
  /\ \E i \in DOMAIN processedScenes :
       /\ Val(config).scenes[i].video = Some(<<"i", "n", "t", "r", "o", ".", "m", "p", "4">>)
       /\ processedScenes[i].videoFile = Some(ExtractedFile(<<"v", "/", "I", "n", "t", "r", "o", ".", "m", "p", "4">>))

\* =====================================================================
\* Properties of getFFmpeg (checked under SpecEngine)
\* =====================================================================

LoadsInFlight == {c \in Callers : getPc[c] = "loading"}

\* C7: whatever the interleaving of getFFmpeg calls, at most one engine
\* initialisation is in flight; a caller that arrives while one is in
\* flight waits for it and creates no second handle.
C7_SingleInitInFlight ==
  /\ [](Cardinality(LoadsInFlight) <= 1)
  /\ [][\A c \in Callers :
          (getPc[c] = "idle" /\ getPc'[c] # "idle" /\ LoadsInFlight # {}) =>
            (getPc'[c] = "waiting" /\ created' = created)]_vars

\* One caller is initialising the engine while another one waits.
C7_Witness ==
  \E c, d \in Callers : c # d /\ getPc[c] = "loading" /\ getPc[d] = "waiting"

\* =====================================================================
\* Properties of a render run (checked under SpecRender)
\* =====================================================================

\* C4: once a scene's video has failed to load or has reported an error
\* during playback, the run is rejected (the error is delivered to the
\* caller) and no scene after the failed one has been started.
C4_VideoErrorAbortsRun ==
  scenePhase \in {"hung", "failed"} =>
    /\ settled = "rejected"
    /\ Len(rendered) = currentSceneIndex + 1

CompleteEvents(log) == {k \in DOMAIN log : log[k].stage = "complete"}

\* C5: a run settles at most once, and once it is rejected no blob is
\* produced and no 'complete' progress event is emitted any more.
C5_SettlesOnce ==
  [][/\ settled # "pending" => settled' = settled
     /\ settled = "rejected" =>
          /\ blobs' = blobs
          /\ blobContent' = blobContent
          /\ CompleteEvents(progressLog') = CompleteEvents(progressLog)]_vars

IsPrefix(a, b) == Len(a) <= Len(b) /\ \A k \in 1..Len(a) : a[k] = b[k]

\* The ids of the scenes that have a video, in scene-list order.
ExpectedOrder ==
  LET withVideo == SelectSeq(scenes, HasVideo)
  IN [k \in 1..Len(withVideo) |-> withVideo[k].id]

\* C6: scenes are rendered in scene-list order restricted to the scenes with
\* a video, whatever their ids; a resolved run has rendered all of them.  In
\* the FFmpeg path the k-th segment holds the k-th such scene, concat.txt
\* lists the segments in that order and so does the final output.
C6_SceneOrder ==
  /\ IsPrefix(rendered, ExpectedOrder)
  /\ settled = "resolved" => rendered = ExpectedOrder
  /\ \A k \in DOMAIN outputFiles :
       /\ outputFiles[k] = k - 1
       /\ FileName("output", k - 1) \in DOMAIN fs =>
            fs[FileName("output", k - 1)] = <<ExpectedOrder[k]>>
  /\ ConcatFile \in DOMAIN fs =>
       fs[ConcatFile] = [k \in 1..Len(ExpectedOrder) |-> k - 1]
  /\ (settled = "resolved" /\ engine = "ffmpeg") => blobContent = ExpectedOrder

\* A resolved FFmpeg run over two scenes listed in descending id order.
C6_Witness ==
  /\ engine = "ffmpeg"
  /\ settled = "resolved"
  /\ Len(scenes) = 2
  /\ blobContent = <<2, 1>>

\* C12: when no scene of the list has a video, the run, once it has made
\* its first step, is rejected with no progress event emitted, no recorder
\* created, nothing written to the engine's file system and no engine
\* initialisation started by the run.
C12_NoScenesFailsFirst ==
  (Len(ValidScenes(scenes)) = 0 /\ runPc # "called") =>
    /\ settled = "rejected"
    /\ progressLog = <<>>
    /\ recorder = "none"
    /\ fs = NoFiles
    /\ ~ffmpegLoading
    /\ loadTarget[RunCaller] = 0

\* The content of the segment encoded for the k-th valid scene
SegmentOf(k) == <<ValidScenes(scenes)[k].id>>

\* C13: when the scene loop of the FFmpeg path has ended with exactly one
\* segment, the run makes no concat invocation (no concat.txt, no concat
\* exec), the bytes read for the pass-through are that segment's bytes, and
\* the blob of a resolved run holds exactly those bytes.
C13_SingleSegmentPassThrough ==
  (engine = "ffmpeg" /\ Len(outputFiles) = 1 /\ loopI = Len(ValidScenes(scenes))) =>
    /\ runPc \notin {"concatWrite", "concatExec"}
    /\ ConcatFile \notin DOMAIN fs
    /\ runPc \in {"passWrite", "finalRead"} => passData = SegmentOf(1)
    /\ FinalFile \in DOMAIN fs => fs[FinalFile] = SegmentOf(1)
    /\ settled = "resolved" => blobContent = SegmentOf(1)

\* A run over one valid scene has resolved with that scene's segment.
C13_Witness ==
  /\ engine = "ffmpeg"
  /\ Len(outputFiles) = 1
  /\ settled = "resolved"
  /\ blobContent = SegmentOf(1)
  /\ Len(scenes) = 2

PerSceneArtifacts(files) == {f \in DOMAIN files : f[1] \in {"output", "subs"}}

\* C14: in the FFmpeg path a failing deletion, of a subtitle file or of a
\* segment, never makes the run fail, and a run that ends in failure leaves
\* no per-scene segment or subtitle file on the engine's file system.
C14_ArtifactsReleased ==
  [][/\ runPc \in {"deleteSubs", "cleanup"} => settled' # "rejected"
     /\ (engine = "ffmpeg" /\ runPc' = "done" /\ settled' = "rejected") =>
          PerSceneArtifacts(fs') = {}]_vars

IsMonotone(log) == \A j, k \in DOMAIN log : j <= k => log[j].progress <= log[k].progress

\* C15: the progress values emitted so far in a run are non-decreasing in
\* emission order and lie within 0..100.
C15_ProgressMonotonic ==
  /\ IsMonotone(progressLog)
  /\ \A k \in DOMAIN progressLog : progressLog[k].progress \in 0..100

\* A playback rate equal to 1.0
IsUnitRate(r) == r.num = r.den

\* C8: for a playing scene with decoded audio duration A and video duration
\* V, if A = 0 or V <= A then playbackRate is 1.0 and effectiveDuration is V,
\* in both sync modes.
C8_SyncNone ==
  (scenePhase = "playing" /\ (audioDuration = 0 \/ videoDuration <= audioDuration)) =>
    /\ IsUnitRate(playbackRate)
    /\ effectiveDuration = videoDuration

\* Speed mode is configured, the audio is longer than the video.
C8_Witness ==
  /\ scenePhase = "playing"
  /\ syncMode = "speed"
  /\ audioDuration > videoDuration

\* C9: for a playing scene with V > A > 0, effectiveDuration is A in both
\* modes; in speed mode playbackRate is V / A (playbackRate * A = V,
\* playbackRate > 1), in trim mode it is 1.0.
C9_SyncSpeedTrim ==
  (scenePhase = "playing" /\ audioDuration > 0 /\ videoDuration > audioDuration) =>
    /\ effectiveDuration = audioDuration
    /\ syncMode = "speed" =>
         /\ playbackRate.num * audioDuration = videoDuration * playbackRate.den
         /\ playbackRate.num > playbackRate.den
    /\ syncMode = "trim" => IsUnitRate(playbackRate)

\* A video longer than its audio plays in speed mode.
C9_Witness ==
  /\ scenePhase = "playing"
  /\ syncMode = "speed"
  /\ audioDuration > 0
  /\ videoDuration > audioDuration
  /\ ~IsUnitRate(playbackRate)

\* =====================================================================
\* Properties of renderSceneToCanvas: loading, playback and the frame loop
\* =====================================================================

\* The scene that processNextScene is rendering, if any
Rendering == runPc = "canvas" /\ currentSceneIndex < Len(ValidScenes(scenes))

CurrentScene == ValidScenes(scenes)[currentSceneIndex + 1]

\* The audio attempt of the current scene is over: there is none to make,
\* or it produced a source, or it threw.
AudioAttemptOver ==
  CurrentScene.hasAudio => (audioSource \/ currentSceneIndex \in audioFailed)

\* C21: when the audio of a scene fails to load, the failure itself leaves
\* the run's promise alone and the scene goes on to load its video; the
\* scene then plays with no audio source started, at playback rate 1 and for
\* the video's whole duration, and when it ends the next scene starts.
C21_AudioFailureSilent ==
  /\ [](/\ audioFailed \cap audioPlaying = {}
        /\ (Rendering /\ scenePhase = "playing" /\ currentSceneIndex \in audioFailed) =>
             /\ ~audioSource
             /\ audioDuration = 0
             /\ playbackRate = One
             /\ effectiveDuration = videoDuration)
  /\ [][/\ (audioFailed' # audioFailed) =>
             /\ scenePhase = "audio"
             /\ scenePhase' = "video"
             /\ settled' = settled
             /\ currentSceneIndex' = currentSceneIndex
        /\ (/\ scenePhase = "playing"
            /\ currentSceneIndex \in audioFailed
            /\ currentSceneIndex \notin frameLoops') =>
             \/ currentSceneIndex' = currentSceneIndex + 1
             \/ scenePhase' = "failed"]_vars

\* A scene whose audio failed was rendered to its end, the next scene was
\* rendered too and the run resolved.
C21_Witness ==
  /\ 0 \in audioFailed
  /\ Len(rendered) >= 2
  /\ currentSceneIndex = Len(ValidScenes(scenes))
  /\ settled = "resolved"

\* The text of the cue of lowest position whose interval, moved by the
\* offset o, contains the time num / den (bounds included); none if no
\* interval contains it.
FirstContaining(cues, o, num, den) ==
  LET hits == {k \in DOMAIN cues :
                 /\ num >= (cues[k].startTime + o) * den
                 /\ num <= (cues[k].endTime + o) * den}
  IN IF hits = {} THEN Undefined
     ELSE Some(cues[CHOOSE k \in hits : \A h \in hits : k <= h].text)

\* The cues of the scene the last frame was drawn for
FrameCues == SubtitleCues(ValidScenes(scenes)[lastFrame.scene + 1])

\* C22: with timing offset o, the frame drawn at video time t shows a cue
\* with scene-relative interval [s, e] exactly when s + o <= t <= e + o
\* (the first such cue when several qualify).
C22_OffsetApplied ==
  (lastFrame # NoFrame) =>
    lastFrame.sub = FirstContaining(FrameCues, timingOffset, lastFrame.num, lastFrame.den)

\* C33: the subtitle of a drawn frame is the first cue in the scene's cue
\* order whose interval [startTime, endTime], bounds included, contains the
\* video time of the frame, and no subtitle when no interval contains it.
C33_FirstContainingCueDrawn ==
  (lastFrame # NoFrame) =>
    lastFrame.sub = FirstContaining(FrameCues, 0, lastFrame.num, lastFrame.den)

\* A frame at a time that both cues of the scene contain shows the first.
C33_Witness ==
  /\ lastFrame # NoFrame
  /\ Len(FrameCues) = 2
  /\ lastFrame.num = FrameCues[2].startTime * lastFrame.den
  /\ lastFrame.sub = Some(FrameCues[1].text)

\* C29: at most one frame loop exists and it belongs to the scene that is
\* playing; a frame is drawn only for the playing scene; the next scene
\* starts only from the playing scene's end, one index further, with the
\* ended scene's frame loop gone.
C29_OneSceneAtATime ==
  /\ [](/\ Cardinality(frameLoops) <= 1
        /\ (frameLoops # {}) => (scenePhase = "playing" /\ frameLoops = {currentSceneIndex}))
  /\ [][/\ (lastFrame' # lastFrame) =>
             /\ scenePhase' = "playing"
             /\ currentSceneIndex' = currentSceneIndex
             /\ lastFrame'.scene = currentSceneIndex
        /\ (currentSceneIndex' # currentSceneIndex) =>
             /\ scenePhase = "playing"
             /\ currentSceneIndex' = currentSceneIndex + 1
             /\ frameLoops' = {}
             /\ lastFrame' = lastFrame]_vars

\* The second scene plays and draws its own frames after the first ended.
C29_Witness ==
  /\ scenePhase = "playing"
  /\ currentSceneIndex = 1
  /\ frameLoops = {1}
  /\ lastFrame.scene = 1
  /\ elapsed > 0

\* C30: a frame loop, a started audio source or a drawn frame of the current
\* scene exists only when the video has loaded and the audio attempt is over;
\* an audio source is started in the very step that loads the video and
\* starts the frame loop.
C30_PlaybackAfterBothLoads ==
  /\ []((/\ Rendering
         /\ \/ scenePhase = "playing"
            \/ currentSceneIndex \in frameLoops
            \/ currentSceneIndex \in audioPlaying
            \/ lastFrame.scene = currentSceneIndex) =>
          (videoDuration > 0 /\ AudioAttemptOver))
  /\ [][\A i \in audioPlaying' \ audioPlaying :
          /\ scenePhase = "video"
          /\ scenePhase' = "playing"
          /\ i = currentSceneIndex
          /\ i \in frameLoops' \ frameLoops]_vars

\* A scene with audio plays with its source started after a decoded audio
\* track and a loaded video.
C30_Witness ==
  /\ Rendering
  /\ scenePhase = "playing"
  /\ CurrentScene.hasAudio
  /\ currentSceneIndex \in audioPlaying
  /\ currentSceneIndex \in frameLoops
  /\ lastFrame.scene = currentSceneIndex

\* =====================================================================
\* Properties of VideoAssembler
\* =====================================================================

\* C24: the extension handleDownload suggests is webm for a blob the canvas
\* engine produced and mp4 for a blob the FFmpeg engine produced.
C24_ExtensionFollowsEngine ==
  (downloadExt # "none") => downloadExt = DownloadExtension(engine)

\* =====================================================================
\* Properties of matchFilesToScenes without a shared cue sequence
\* =====================================================================

\* The subtitle file that resolves for the k-th scene of the document
OwnSubtitleFile(k) ==
  LET scene == Val(config).scenes[k] IN
  ResolveChannel(CategorizedSubtitles(extractedFiles), scene.subtitle, scene.id)

StopPointReached(t) ==
  \/ VideoAtEnd(t)
  \/ /\ audioDuration > 0
     /\ videoDuration > audioDuration
     /\ syncMode = "trim"
     /\ t >= effectiveDuration

NoDuplicates(seq) == \A j, k \in DOMAIN seq : seq[j] = seq[k] => j = k

\* C32: every scene is started once and the index moves one scene at a
\* time, from a playing scene only; an ended event that arrives for a scene
\* the frame loop has already completed changes neither the index, the
\* phase of the scene now rendered, the scenes started nor the run's promise.
C32_SceneCompletesOnce ==
  /\ []((runPc = "canvas") =>
          /\ NoDuplicates(rendered)
          /\ Len(rendered) =
               IF currentSceneIndex < Len(ValidScenes(scenes))
               THEN currentSceneIndex + 1 ELSE Len(ValidScenes(scenes)))
  /\ [][/\ (currentSceneIndex' # currentSceneIndex) =>
             /\ scenePhase = "playing"
             /\ currentSceneIndex' = currentSceneIndex + 1
        /\ \A j \in endedQueued \ endedQueued' :
             (j # currentSceneIndex \/ scenePhase # "playing") =>
               /\ currentSceneIndex' = currentSceneIndex
               /\ scenePhase' = scenePhase
               /\ rendered' = rendered
               /\ settled' = settled
               /\ j \notin audioPlaying'
               /\ j \notin frameLoops']_vars

\* The frame loop has completed the first scene and the second scene plays
\* while the ended event of the first scene's video is still to be handled.
C32_Witness ==
  /\ 0 \in endedQueued
  /\ currentSceneIndex = 1
  /\ scenePhase = "playing"
  /\ 0 \notin audioPlaying

\* =====================================================================
\* Properties of getFFmpeg after an initialisation has settled
\* =====================================================================

\* C34: once the engine is loaded it stays loaded, the handle is never
\* replaced, no handle is created and no initialisation is in flight any
\* more, and every call that returns from then on returns that handle.
C34_HandleReusedOnceLoaded ==
  /\ [](ffmpegLoaded => (LoadsInFlight = {} /\ ffmpegInstance \in loadedHandles))
  /\ [][ffmpegLoaded =>
          /\ ffmpegLoaded'
          /\ ffmpegInstance' = ffmpegInstance
          /\ created' = created
          /\ \A c \in Callers :
               /\ getPc'[c] # "loading"
               /\ (getPc[c] # "returned" /\ getPc'[c] = "returned") =>
                    returned'[c] = ffmpegInstance]_vars

\* A caller's last call and another caller's call have both returned the
\* one loaded handle.
C34_Witness ==
  /\ ffmpegLoaded
  /\ \E c, d \in Callers :
       /\ c # d
       /\ calls[c] = MaxCalls
       /\ getPc[c] = "returned" /\ returned[c] = ffmpegInstance
       /\ getPc[d] = "returned" /\ returned[d] = ffmpegInstance

\* C36: a failing initialisation clears ffmpegLoading; a handle that is
\* returned to a caller is a loaded one; at most one initialisation is in
\* flight at any time, also after a failure; and no caller stays in the
\* waiting loop forever.
C36_FailedInitRecovers ==
  /\ [](\A c \in Callers : (getPc[c] = "returned") => (returned[c] \in loadedHandles))
  /\ [](Cardinality(LoadsInFlight) <= 1)
  /\ [][\A c \in Callers :
          (getPc[c] = "loading" /\ getPc'[c] = "threw") =>
            (~ffmpegLoading' /\ ~ffmpegLoaded' /\ LoadsInFlight' = {})]_vars
  /\ \A c \in Callers : (getPc[c] = "waiting") ~> (getPc[c] # "waiting")

\* After the initialisation of the first handle failed, a second handle was
\* created, loaded and returned to a caller.
C36_Witness ==
  /\ created = 2
  /\ 1 \notin loadedHandles
  /\ \E c, d \in Callers :
       /\ c # d
       /\ getPc[c] = "threw"
       /\ getPc[d] = "returned" /\ returned[d] = 2

\* =====================================================================
\* Termination of processScenesWithCanvas
\* =====================================================================

\* C35: every run of the canvas engine eventually settles: its promise is
\* resolved or rejected.
C35_CanvasRunSettles == (engine = "canvas") => <>(settled # "pending")

\* =====================================================================
\* The 'complete' progress event of a run
\* =====================================================================

\* C37: 'complete' is emitted at most once, with progress 100, as the last
\* progress event, only when every scene with a video has been rendered and
\* never in a run that was rejected; a resolved run has emitted it.
C37_CompleteOnlyOnSuccess ==
  LET done == CompleteEvents(progressLog) IN
  /\ Cardinality(done) <= 1
  /\ (done # {}) =>
       /\ done = {Len(progressLog)}
       /\ progressLog[Len(progressLog)].progress = 100
       /\ rendered = ExpectedOrder
       /\ settled # "rejected"
  /\ (settled = "resolved") => (done # {})

\* =====================================================================
\* The Generate button during a run
\* =====================================================================

\* The run handleProcess started is suspended at an await and its promise
\* is still pending.
RunInFlight == runPc \notin {"idle", "called", "done"} /\ settled = "pending"

\* C38: while the run that handleProcess started is in flight, the Generate
\* button is disabled, so that handleProcess cannot be invoked again.
C38_GenerateDisabledInFlight == RunInFlight => GenerateDisabled

\* The cue is a cue of the shared sequence moved in time.
FromSharedCues(cue) ==
  \E j \in DOMAIN Val(allCues) :
    /\ cue.text = Val(allCues)[j].text
    /\ cue.endTime - cue.startTime = Val(allCues)[j].endTime - Val(allCues)[j].startTime

====
